---- MODULE Spec2Model ----
(***************************************************************************)
(* Model of the broadcast list of TinyPedal (tinypedal/ui/broadcast_view). *)
(*                                                                         *)
(* Times are whole seconds.  The source computes with floats; the model    *)
(* keeps the arithmetic of the source (floor division, the half-lap test,  *)
(* the inclusive thresholds) over the integers, so every threshold is met  *)
(* exactly and missed by one second.  The half-lap test                    *)
(* "diff > laptime_est * 0.5" is written 2 * diff > laptime_est.           *)
(***************************************************************************)
EXTENDS Integers, FiniteSets, Sequences, TLC

(* ------------------------------ bounds -------------------------------- *)

\* vehicles in the session (api.read.vehicle.total_vehicles())
NumVehicles == 3
\* largest lap-time estimate, in seconds; times into the lap are 0..MaxLap-1
MaxLap == 8

(* ------------------------- program constants -------------------------- *)

BATTLE_THRESHOLD == 1
CLOSE_THRESHOLD == 2
LAPPING_THRESHOLD == 3
YELLOW_SPEED_THRESHOLD == 8
YELLOW_STICKY_DURATION == 5

(* ------------------------------ domains ------------------------------- *)

Vehicles == 0..(NumVehicles - 1)
Classes == {"GT3", "LMP2"}
LapTimesOn == {MaxLap - 1, MaxLap}
IntoLap == 0..(MaxLap - 1)
\* the value of a dict entry that is absent (dict.get -> None)
None == -1

Abs(x) == IF x < 0 THEN -x ELSE x

(* ----------------------- circular lap-time math ----------------------- *)

\* Python's x // y on integers: the floor of the quotient, y # 0
FloorDiv(x, y) == IF y > 0 THEN x \div y ELSE (-x) \div (-y)

\* the half-lap test with the boundary on the wrong side
WrapDelta_HalfInclusive(a, b, period) ==
    LET diff0 == a - b
        diff1 == diff0 - FloorDiv(diff0, period) * period
    IN  IF 2 * diff1 >= period THEN diff1 - period ELSE diff1

\* diff = a - b; diff = diff - diff // period * period;
\* if diff > period * 0.5: diff -= period
WrapDelta(a, b, period) ==
    LET diff0 == a - b
        diff1 == diff0 - FloorDiv(diff0, period) * period
    IN  IF 2 * diff1 > period THEN diff1 - period ELSE diff1


(* --------------------------- the driver list -------------------------- *)

NameList == <<"Alonso", "Button", "Coulthard", "Davidson", "Ericsson">>
DriverName(i) == NameList[i + 1]
Anonymous == "Anonymous"

\* one tuple of driver_list:
\* (place, class, name, index, rel_gap, in_pits, is_yellow, is_blue)
Entry(i, place, cls, rel_gap, in_pits, is_yellow, is_blue) ==
    [place |-> place, cls |-> cls, name |-> DriverName(i), index |-> i,
     rel_gap |-> rel_gap, in_pits |-> in_pits, is_yellow |-> is_yellow,
     is_blue |-> is_blue]

(* ------------------------- _calc_class_positions ---------------------- *)

\* the order of entries.sort() taken by place alone
EntryBefore_PlaceOnly(e1, e2) == e1.place < e2.place

\* entries.sort() orders the (place, driver_index) tuples: by place, then
\* by driver index
EntryBefore(e1, e2) ==
    \/ e1.place < e2.place
    \/ e1.place = e2.place /\ e1.index < e2.index

\* group by class, sort each group, number it from 1: a driver's position
\* is one more than the number of entries of its class sorted before it
CalcClassPositions(dl) ==
    [idx \in {dl[i].index : i \in DOMAIN dl} |->
        LET e == dl[CHOOSE i \in DOMAIN dl : dl[i].index = idx]
        IN  1 + Cardinality({j \in DOMAIN dl :
                                /\ dl[j].cls = e.cls
                                /\ EntryBefore(dl[j], e)})]

(* ----------------------------- _find_battles -------------------------- *)

\* the filter without the yellow flag
OnTrackClean_IgnoreYellow(e) == ~e.in_pits /\ ~e.is_blue

\* if not in_pits and not is_yellow and not is_blue
OnTrackClean(e) == ~e.in_pits /\ ~e.is_yellow /\ ~e.is_blue

\* the pairs (indices[i], indices[j]), i < j, of one class list; a class
\* list of fewer than two drivers has none
ClassPairs(dl) ==
    {<<dl[i].index, dl[j].index>> : <<i, j>> \in
        {p \in (DOMAIN dl) \X (DOMAIN dl) :
            /\ p[1] < p[2]
            /\ OnTrackClean(dl[p[1]]) /\ OnTrackClean(dl[p[2]])
            /\ dl[p[1]].cls = dl[p[2]].cls}}

\* diff = time_into[indices[j]] - time_into[indices[i]], wrapped; gap = abs(diff)
PairGap(ti, i, j, lap) == Abs(WrapDelta(ti[j], ti[i], lap))

IsBattleGap_Strict(gap) == gap < BATTLE_THRESHOLD

\* if gap <= BATTLE_THRESHOLD
IsBattleGap(gap) == gap <= BATTLE_THRESHOLD

\* elif gap <= CLOSE_THRESHOLD
IsCloseGap(gap) == gap <= CLOSE_THRESHOLD

RemoveBattles_Skipped(cl, bt) == cl

\* close -= battles
RemoveBattles(cl, bt) == cl \ bt

FindBattles(dl, ti, lap) ==
    IF lap <= 0
    THEN [battles |-> {}, close |-> {}]
    ELSE LET pairs == ClassPairs(dl)
             bp == {p \in pairs : IsBattleGap(PairGap(ti, p[1], p[2], lap))}
             cp == {p \in pairs \ bp : IsCloseGap(PairGap(ti, p[1], p[2], lap))}
             bt == UNION {{p[1], p[2]} : p \in bp}
             cl == UNION {{p[1], p[2]} : p \in cp}
         IN  [battles |-> bt, close |-> RemoveBattles(cl, bt)]

(* ----------------------------- _find_lappers -------------------------- *)

\* the blue-flagged drivers that are not in the pits
BlueDrivers(dl) ==
    {dl[i].index : i \in {k \in DOMAIN dl : ~dl[k].in_pits /\ dl[k].is_blue}}

NonBlueDrivers_All(dl) ==
    {dl[i].index : i \in {k \in DOMAIN dl : ~dl[k].in_pits}}

\* the other drivers that are not in the pits
NonBlueDrivers(dl) ==
    {dl[i].index : i \in {k \in DOMAIN dl : ~dl[k].in_pits /\ ~dl[k].is_blue}}

IsLappingGap_Strict(gap) == gap < LAPPING_THRESHOLD

\* if abs(diff) <= LAPPING_THRESHOLD
IsLappingGap(gap) == gap <= LAPPING_THRESHOLD

FindLappers(dl, ti, lap) ==
    IF lap <= 0
    THEN {}
    ELSE {nb \in NonBlueDrivers(dl) :
            \E b \in BlueDrivers(dl) :
                IsLappingGap(Abs(WrapDelta(ti[nb], ti[b], lap)))}

VARIABLES
    wa, wb, wperiod,   \* SpecWrap: the two times and the period
    wdelta, wback,     \* SpecWrap: WrapDelta(a, b, period) and WrapDelta(b, a, period)
    wpc,               \* SpecWrap: "in" before the computation, "out" after
    time_into,         \* api.read.timing.estimated_time_into(idx), per driver index
    laptime_est,       \* api.read.timing.estimated_laptime()
    driver_list,       \* the list of driver tuples of the last scan, by driver index
    class_positions,   \* the dict returned by _calc_class_positions
    battles, close,    \* the two sets returned by _find_battles
    lapping,           \* the set returned by _find_lappers
    pc,                \* the operation that produced the outputs ("in": none yet)
    veh,               \* api.read.vehicle / api.read.session, per driver index
    now,               \* time.monotonic()
    yellow_timestamps, \* self._yellow_timestamps; None for an absent key
    player_index,      \* cfg.api["player_index"]
    enable_player_index_override,  \* cfg.api["enable_player_index_override"]
    spectated,         \* history: the last two spectate hotkeys and the
                       \* player_index before each of them
    selected_index,    \* the local selected_index at the end of the last scan
    populated,         \* whether the last scan went on to fill the table
    last_slow,         \* history, per car: when a scan last sampled it slow on track
    recovered,         \* history, per car: the first scan since that sampled it at speed
    forgotten,         \* history, per car: the slow sample an in-pits scan dropped
    wcfg,              \* flag widget: self.wcfg, the settings the timers are built with
    lap_etime,         \* flag widget: api.read.timing.elapsed() at the last timerEvent
    tele,              \* flag widget: what else the last timerEvent read
    pit_timer,         \* PitTimer: _timer_start, _last_in_pits, _last_pit_time
    green_timer,       \* GreenFlagTimer: _last_lap_stime
    blue_timer,        \* BlueFlagTimer: _timer_start
    traffic_timer,     \* TrafficTimer: _timer_start, _last_in_pits
    pitting_state, blue_state, green_state, traffic,  \* what timerEvent displays
    flag_hist,         \* history: the edges and episodes the timer updates were given
    shadow,            \* history: the timers of a widget constructed at the last
                       \* post_update and given the same ticks since (on: there
                       \* has been a post_update)
    fpc,               \* flag widget: "tick" after a timerEvent ("in": none yet)
    stint_cfg,         \* stint widget: the settings stint_history_stats is built with
    session_etime,     \* stint widget: api.read.session.elapsed() at the last timerEvent
    gen,               \* stint_history_stats: where it is suspended, and its locals
    stint_data,        \* self.stint_data, the current stint
    history_data,      \* self.history_data, the deque of closed stints
    did_close,         \* what next(self.stint_stats) returned to the last timerEvent
    pushed,            \* history: the number of records pushed, up to MaxHistory + 1
    offered,           \* history: the telemetry at the last timerEvent, when the
                       \* car was last seen moving, whether the call ran the
                       \* reset block, how many records it appended, the lap
                       \* in progress and the stay of the car where it is
    spc                \* stint widget: "tick" after a timerEvent ("in": none yet)

wrapVars == <<wa, wb, wperiod, wdelta, wback, wpc>>
rosterVars == <<time_into, laptime_est, driver_list>>
outVars == <<class_positions, battles, close, lapping>>

\* what the scans have sampled of each car, kept with the car at its roster
\* index; the claims about the yellow flag are stated over it
obsVars == <<last_slow, recovered, forgotten>>

hotkeyVars == <<enable_player_index_override, spectated>>

sessionVars ==
    <<veh, now, yellow_timestamps, player_index, selected_index, populated, obsVars,
      hotkeyVars>>

flagVars ==
    <<wcfg, lap_etime, tele, pit_timer, green_timer, blue_timer, traffic_timer,
      pitting_state, blue_state, green_state, traffic, flag_hist, shadow,
      fpc>>

stintVars ==
    <<stint_cfg, session_etime, gen, stint_data, history_data, did_close,
      pushed, offered, spc>>

widgetVars == <<flagVars, stintVars>>

vars == <<wrapVars, rosterVars, outVars, pc, sessionVars, widgetVars>>

\* no flag widget: the state of the specifications that show none
FlagIdle ==
    /\ wcfg = << >> /\ lap_etime = 0 /\ tele = << >>
    /\ pit_timer = << >> /\ green_timer = << >> /\ blue_timer = << >>
    /\ traffic_timer = << >>
    /\ pitting_state = 0 /\ blue_state = 0 /\ green_state = 0 /\ traffic = 0
    /\ flag_hist = << >> /\ shadow = << >> /\ fpc = "idle"

\* no stint widget: the state of the specifications that show none
StintIdle ==
    /\ stint_cfg = << >> /\ session_etime = 0 /\ gen = << >>
    /\ stint_data = << >> /\ history_data = << >> /\ did_close = FALSE
    /\ pushed = 0 /\ offered = << >> /\ spc = "idle"

WidgetsIdle == FlagIdle /\ StintIdle

(* --------------------- SpecWrap: the wrap-around delta ---------------- *)

\* no session: the state of the specifications that apply one function
SessionIdle ==
    /\ veh = << >> /\ now = 0 /\ yellow_timestamps = << >>
    /\ player_index = None /\ selected_index = None /\ populated = FALSE
    /\ enable_player_index_override = FALSE /\ spectated = << >>
    /\ last_slow = << >> /\ recovered = << >> /\ forgotten = << >>

WrapIdle ==
    /\ wa = 0 /\ wb = 0 /\ wperiod = 1
    /\ wdelta = 0 /\ wback = 0 /\ wpc = "idle"

\* no roster: the state of the specifications that use none
RosterIdle ==
    /\ SessionIdle /\ WidgetsIdle
    /\ time_into = << >> /\ laptime_est = 0 /\ driver_list = << >>
    /\ class_positions = << >> /\ battles = {} /\ close = {} /\ lapping = {}
    /\ pc = "idle"

WrapInit ==
    /\ RosterIdle
    /\ wa \in (-MaxLap)..(2 * MaxLap)
    /\ wb \in (-MaxLap)..(2 * MaxLap)
    /\ wperiod \in 1..MaxLap
    /\ wdelta = 0 /\ wback = 0
    /\ wpc = "in"

ApplyWrapDelta ==
    /\ wpc = "in"
    /\ wdelta' = WrapDelta(wa, wb, wperiod)
    /\ wback' = WrapDelta(wb, wa, wperiod)
    /\ wpc' = "out"
    /\ UNCHANGED <<widgetVars, wa, wb, wperiod, rosterVars, outVars, pc, sessionVars>>

SpecWrap == WrapInit /\ [][ApplyWrapDelta]_vars

\* C2: the wrap-around delta lies in (-period/2, +period/2] and is congruent
\* to a - b modulo period, for negative a - b as well.
C2_WrapDeltaRange ==
    wpc = "out" =>
        /\ 2 * wdelta > -wperiod
        /\ 2 * wdelta <= wperiod
        /\ \E k \in (-4 * MaxLap)..(4 * MaxLap) : (wa - wb) - wdelta = k * wperiod

\* a negative difference has been wrapped into the upper half-open end
C2_Witness ==
    /\ wpc = "out" /\ wa - wb < 0 /\ 2 * wdelta = wperiod

\* C3: WrapDelta(a, b, p) = -WrapDelta(b, a, p), except when the circular
\* distance is exactly p/2, where both directions give +p/2.
C3_WrapDeltaAntisymmetry ==
    wpc = "out" =>
        IF 2 * Abs(wdelta) = wperiod
        THEN 2 * wdelta = wperiod /\ 2 * wback = wperiod
        ELSE wdelta = -wback

\* both shapes occur: this one is an exact half period
C3_Witness ==
    /\ wpc = "out" /\ 2 * wdelta = wperiod /\ 2 * wback = wperiod /\ wa # wb

(* ------------- the classifiers applied to a given driver list --------- *)

NoOutputs ==
    /\ SessionIdle
    /\ class_positions = << >> /\ battles = {} /\ close = {} /\ lapping = {}
    /\ pc = "in"

\* driver lists of cars that are neither yellow nor blue-flagged: class and
\* pit state vary
BattleRosters ==
    {[i \in Vehicles |-> Entry(i, i + 1, c[i], 0, p[i], FALSE, FALSE)] :
        c \in [Vehicles -> Classes], p \in [Vehicles -> BOOLEAN]}

\* what _check_yellow can return beside in_pits: never yellow in the pits
FlagCombos ==
    {f \in [in_pits : BOOLEAN, is_yellow : BOOLEAN, is_blue : BOOLEAN] :
        f.in_pits => ~f.is_yellow}

\* driver lists with every combination of class and flags
FlagRosters ==
    {[i \in Vehicles |->
        Entry(i, i + 1, c[i], 0, f[i].in_pits, f[i].is_yellow, f[i].is_blue)] :
        c \in [Vehicles -> Classes], f \in [Vehicles -> FlagCombos]}

\* the class of a car when the class is not under study: both classes occur
ClassByIndex(i) == IF i % 2 = 0 THEN "GT3" ELSE "LMP2"

\* driver lists where pit state and blue flag vary
LapperRosters ==
    {[i \in Vehicles |-> Entry(i, i + 1, ClassByIndex(i), 0, p[i], FALSE, b[i])] :
        p \in [Vehicles -> BOOLEAN], b \in [Vehicles -> BOOLEAN]}

\* driver lists where place and class vary; two cars may report one place
PlaceRosters ==
    {[i \in Vehicles |-> Entry(i, pl[i], c[i], 0, FALSE, FALSE, FALSE)] :
        pl \in [Vehicles -> 1..NumVehicles], c \in [Vehicles -> Classes]}

BattlesInit ==
    /\ WrapIdle /\ NoOutputs /\ WidgetsIdle
    /\ driver_list \in BattleRosters
    /\ time_into \in [Vehicles -> IntoLap]
    /\ laptime_est \in LapTimesOn

\* the cars are within CLOSE_THRESHOLD of each other: every pair is a
\* candidate for one of the two sets
FlagsInit ==
    /\ WrapIdle /\ NoOutputs /\ WidgetsIdle
    /\ driver_list \in FlagRosters
    /\ time_into \in [Vehicles -> 0..CLOSE_THRESHOLD]
    /\ laptime_est \in LapTimesOn

LappersInit ==
    /\ WrapIdle /\ NoOutputs /\ WidgetsIdle
    /\ driver_list \in LapperRosters
    /\ time_into \in [Vehicles -> IntoLap]
    /\ laptime_est \in LapTimesOn

PlacesInit ==
    /\ WrapIdle /\ NoOutputs /\ WidgetsIdle
    /\ driver_list \in PlaceRosters
    /\ time_into = [i \in Vehicles |-> 0]
    /\ laptime_est = MaxLap

ApplyFindBattles ==
    /\ pc = "in"
    /\ LET r == FindBattles(driver_list, time_into, laptime_est)
       IN  battles' = r.battles /\ close' = r.close
    /\ pc' = "battles"
    /\ UNCHANGED <<widgetVars, wrapVars, rosterVars, sessionVars, class_positions, lapping>>

ApplyFindLappers ==
    /\ pc = "in"
    /\ lapping' = FindLappers(driver_list, time_into, laptime_est)
    /\ pc' = "lappers"
    /\ UNCHANGED <<widgetVars, wrapVars, rosterVars, sessionVars, class_positions, battles, close>>

ApplyCalcClassPositions ==
    /\ pc = "in"
    /\ class_positions' = CalcClassPositions(driver_list)
    /\ pc' = "positions"
    /\ UNCHANGED <<widgetVars, wrapVars, rosterVars, sessionVars, battles, close, lapping>>

SpecBattles == BattlesInit /\ [][ApplyFindBattles]_vars
SpecFlags == FlagsInit /\ [][ApplyFindBattles]_vars
SpecLappers == LappersInit /\ [][ApplyFindLappers]_vars
SpecPositions == PlacesInit /\ [][ApplyCalcClassPositions]_vars

\* the circular gap between two cars of the roster, as the claims state it
Gap(i, j) == Abs(WrapDelta(time_into[i], time_into[j], laptime_est))

Eligible(i) ==
    /\ ~driver_list[i].in_pits
    /\ ~driver_list[i].is_yellow
    /\ ~driver_list[i].is_blue

SameClass(i, j) == driver_list[i].cls = driver_list[j].cls

Rivals(i, j) == i # j /\ Eligible(i) /\ Eligible(j) /\ SameClass(i, j)

\* C1: the battle set and the close set are disjoint; a car within
\* BATTLE_THRESHOLD of one same-class car and within CLOSE_THRESHOLD only of
\* another is in the battle set only.
C1_BattleCloseDisjoint ==
    pc = "battles" =>
        /\ battles \cap close = {}
        /\ \A v \in Vehicles :
            (\E w \in Vehicles : Rivals(v, w) /\ Gap(v, w) <= BATTLE_THRESHOLD)
                => v \in battles /\ v \notin close

\* a car in a battle with one rival and merely close to another
C1_Witness ==
    /\ pc = "battles"
    /\ \E v, w, x \in Vehicles :
        /\ Rivals(v, w) /\ Gap(v, w) <= BATTLE_THRESHOLD
        /\ Rivals(v, x) /\ Gap(v, x) > BATTLE_THRESHOLD
        /\ Gap(v, x) <= CLOSE_THRESHOLD
        /\ v \in battles /\ x \in close

\* i and j are the only eligible cars of their class
LonePair(i, j) ==
    /\ Rivals(i, j)
    /\ \A k \in Vehicles \ {i, j} : ~(Eligible(k) /\ SameClass(i, k))

C5_OnlyEligibleRivals ==
    pc = "battles" =>
        /\ \A v \in battles :
            /\ Eligible(v)
            /\ \E w \in Vehicles : Rivals(v, w) /\ Gap(v, w) <= BATTLE_THRESHOLD
        /\ \A v \in close :
            /\ Eligible(v)
            /\ \E w \in Vehicles : Rivals(v, w) /\ Gap(v, w) <= CLOSE_THRESHOLD

\* an eligible car level with a yellow car of its class and with a car of
\* the other class, and in neither set
C5_Witness ==
    /\ pc = "battles"
    /\ \E v, y, o \in Vehicles :
        /\ Eligible(v) /\ v \notin battles \cup close
        /\ SameClass(v, y) /\ driver_list[y].is_yellow /\ Gap(v, y) = 0
        /\ Eligible(o) /\ ~SameClass(v, o) /\ Gap(v, o) = 0

\* v is ahead of w: by place, and by roster index when the places tie
EntryOrder(v, w) ==
    \/ driver_list[v].place < driver_list[w].place
    \/ driver_list[v].place = driver_list[w].place /\ v < w

\* C9: the N cars of a class get exactly the positions 1..N, each once, in
\* the order of their places; of two cars of a class with the same place
\* the earlier roster index gets the lower position.
C9_ClassPositionsPermutation ==
    pc = "positions" =>
        /\ DOMAIN class_positions = Vehicles
        /\ \A v \in Vehicles :
            LET mates == {w \in Vehicles : SameClass(v, w)}
            IN  /\ {class_positions[w] : w \in mates} = 1..Cardinality(mates)
                /\ \A w \in mates :
                    EntryOrder(v, w) => class_positions[v] < class_positions[w]

\* three cars of one class, two of them reporting the same place
C9_Witness ==
    /\ pc = "positions"
    /\ \E v, w \in Vehicles :
        /\ v < w /\ SameClass(v, w)
        /\ driver_list[v].place = driver_list[w].place
        /\ class_positions[w] = class_positions[v] + 1
    /\ \E v \in Vehicles : class_positions[v] = NumVehicles

\* C10: with lapTime > 0 a car is in the lapping set iff it is on track, is
\* not blue-flagged, and some on-track blue-flagged car (of any class) is
\* within LAPPING_THRESHOLD of it; no blue-flagged car is in the set, and
\* the set is empty when no on-track car is blue-flagged.
C10_LappingSet ==
    (pc = "lappers" /\ laptime_est > 0) =>
        /\ \A v \in Vehicles :
            v \in lapping <=>
                /\ ~driver_list[v].in_pits
                /\ ~driver_list[v].is_blue
                /\ \E b \in Vehicles :
                    /\ driver_list[b].is_blue /\ ~driver_list[b].in_pits
                    /\ Gap(v, b) <= LAPPING_THRESHOLD
        /\ \A v \in lapping : ~driver_list[v].is_blue
        /\ (\A b \in Vehicles : driver_list[b].is_blue => driver_list[b].in_pits)
            => lapping = {}

\* a car exactly LAPPING_THRESHOLD from a blue car of the other class is
\* lapping; a car further away is not
C10_Witness ==
    /\ pc = "lappers"
    /\ \E v, b, x \in Vehicles :
        /\ driver_list[b].is_blue /\ ~driver_list[b].in_pits
        /\ v \in lapping /\ Gap(v, b) = LAPPING_THRESHOLD /\ ~SameClass(v, b)
        /\ ~driver_list[x].is_blue /\ ~driver_list[x].in_pits /\ x \notin lapping

(* --------------------- the broadcast list in a session ---------------- *)

\* the stored timestamp kept through the pits
CheckYellow_KeepsStamp(stamp, in_pits, speed, t) ==
    IF in_pits
    THEN [is_yellow |-> FALSE, stamp |-> stamp]
    ELSE IF speed < YELLOW_SPEED_THRESHOLD
    THEN [is_yellow |-> TRUE, stamp |-> t]
    ELSE IF stamp # None /\ t - stamp < YELLOW_STICKY_DURATION
    THEN [is_yellow |-> TRUE, stamp |-> stamp]
    ELSE [is_yellow |-> FALSE, stamp |-> None]

\* the sticky hold with the boundary included
CheckYellow_HoldInclusive(stamp, in_pits, speed, t) ==
    IF in_pits
    THEN [is_yellow |-> FALSE, stamp |-> None]
    ELSE IF speed < YELLOW_SPEED_THRESHOLD
    THEN [is_yellow |-> TRUE, stamp |-> t]
    ELSE IF stamp # None /\ t - stamp <= YELLOW_STICKY_DURATION
    THEN [is_yellow |-> TRUE, stamp |-> stamp]
    ELSE [is_yellow |-> FALSE, stamp |-> None]

\* _check_yellow(driver_index, in_pits) for one driver: the flag returned
\* and the entry of _yellow_timestamps it leaves (None: the key is popped)
CheckYellow(stamp, in_pits, speed, t) ==
    IF in_pits
    THEN [is_yellow |-> FALSE, stamp |-> None]
    ELSE IF speed < YELLOW_SPEED_THRESHOLD
    THEN [is_yellow |-> TRUE, stamp |-> t]
    ELSE IF stamp # None /\ t - stamp < YELLOW_STICKY_DURATION
    THEN [is_yellow |-> TRUE, stamp |-> stamp]
    ELSE [is_yellow |-> FALSE, stamp |-> None]

\* in_pits = api.read.vehicle.in_pits(i) or api.read.vehicle.in_garage(i)
InPits(v) == v.in_pits \/ v.in_garage

\* plr_time = estimated_time_into(selected_index) if selected_index >= 0 else 0
PlrTime(ti, index) == IF index >= 0 THEN ti[index] ELSE 0

\* the local selected_index of update_drivers when the scan reaches driver
\* k: with match_name, every driver scanned so far whose name is the
\* selected name has set it
RECURSIVE SelectedBefore(_, _, _, _)
SelectedBefore(k, name, index, match_name) ==
    IF k = 0
    THEN index
    ELSE IF match_name /\ DriverName(k - 1) = name
         THEN k - 1
         ELSE SelectedBefore(k - 1, name, index, match_name)

RelGapUpdate_ZeroLapOnly(i, sel, plr_time, ti, lap) ==
    IF i = sel \/ lap = 0 \/ sel < 0
    THEN 0
    ELSE WrapDelta(ti[i], plr_time, lap)

\* rel_gap of update_drivers for driver i, sel being selected_index then
RelGapUpdate(i, sel, plr_time, ti, lap) ==
    IF i = sel \/ lap <= 0 \/ sel < 0
    THEN 0
    ELSE WrapDelta(ti[i], plr_time, lap)

\* rel_gap of _refresh_list_only for driver i
RelGapRefresh(i, sel, plr_time, ti, lap) ==
    IF i = sel \/ lap <= 0
    THEN 0
    ELSE WrapDelta(ti[i], plr_time, lap)

\* the samples of one scan added to the history of the cars: a sample in
\* the pits forgets the car's slow sample, a slow sample on track is the
\* latest one, and the first sample at speed after it is the recovery
SlowAfterScan(i) ==
    IF InPits(veh[i]) THEN None
    ELSE IF veh[i].speed < YELLOW_SPEED_THRESHOLD THEN now
    ELSE last_slow[i]

RecoveredAfterScan(i) ==
    IF InPits(veh[i]) \/ veh[i].speed < YELLOW_SPEED_THRESHOLD THEN None
    ELSE IF last_slow[i] # None /\ recovered[i] = None THEN now
    ELSE recovered[i]

ForgottenAfterScan(i) ==
    IF InPits(veh[i])
    THEN IF last_slow[i] # None THEN last_slow[i] ELSE forgotten[i]
    ELSE IF veh[i].speed < YELLOW_SPEED_THRESHOLD THEN None
    ELSE forgotten[i]

ObserveScan ==
    /\ last_slow' = [i \in Vehicles |-> SlowAfterScan(i)]
    /\ recovered' = [i \in Vehicles |-> RecoveredAfterScan(i)]
    /\ forgotten' = [i \in Vehicles |-> ForgottenAfterScan(i)]

\* update_drivers(selected_driver_name, selected_index, match_name,
\* force_save); recent: a user action less than USER_SELECTION_COOLDOWN ago
UpdateDrivers(name, index, match_name, force_save, recent) ==
    LET plr_time == PlrTime(time_into, index)
        yel == [i \in Vehicles |->
                    CheckYellow(yellow_timestamps[i], InPits(veh[i]),
                                veh[i].speed, now)]
        dl == [i \in Vehicles |->
                    Entry(i, veh[i].place, veh[i].cls,
                          RelGapUpdate(i, SelectedBefore(i, name, index, match_name),
                                       plr_time, time_into, laptime_est),
                          InPits(veh[i]), yel[i].is_yellow, veh[i].blue)]
        sel == SelectedBefore(NumVehicles, name, index, match_name)
    IN  /\ yellow_timestamps' = [i \in Vehicles |-> yel[i].stamp]
        /\ driver_list' = dl
        /\ class_positions' = CalcClassPositions(driver_list')
        /\ LET found == FindBattles(driver_list', time_into, laptime_est)
           IN  battles' = found.battles /\ close' = found.close
        \* _populate_table returns at once after a recent user action
        /\ populated' = ~recent
        /\ lapping' = IF recent THEN lapping
                      ELSE FindLappers(driver_list', time_into, laptime_est)
        /\ selected_index' = sel
        \* save_selected_index
        /\ player_index' = IF ~recent \/ force_save THEN selected_index'
                           ELSE player_index
        /\ pc' = "update_drivers"
        /\ ObserveScan
        /\ UNCHANGED <<widgetVars, wrapVars, time_into, laptime_est, veh, now,
                       hotkeyVars>>

\* refresh() and _toggle_sort_mode() with the override enabled:
\* update_drivers(<name>, cfg.api["player_index"], False)
Refresh ==
    \E recent \in BOOLEAN :
        UpdateDrivers(Anonymous, player_index, FALSE, FALSE, recent)

\* spectate_selected() and _on_row_double_clicked(): the user action has
\* just been recorded; update_drivers(<selected name>, -1, True, force_save=True)
SpectateSelected ==
    \E name \in {DriverName(i) : i \in Vehicles} \cup {Anonymous} :
        UpdateDrivers(name, -1, TRUE, TRUE, TRUE)

\* _refresh_list_only()
RefreshListOnly ==
    \E recent \in BOOLEAN :
        LET index == player_index
            plr_time == PlrTime(time_into, index)
            yel == [i \in Vehicles |->
                        CheckYellow(yellow_timestamps[i], InPits(veh[i]),
                                    veh[i].speed, now)]
            dl == [i \in Vehicles |->
                        Entry(i, veh[i].place, veh[i].cls,
                              RelGapRefresh(i, index, plr_time, time_into, laptime_est),
                              InPits(veh[i]), yel[i].is_yellow, veh[i].blue)]
        IN  /\ yellow_timestamps' = [i \in Vehicles |-> yel[i].stamp]
            /\ driver_list' = dl
            /\ class_positions' = CalcClassPositions(driver_list')
            /\ LET found == FindBattles(driver_list', time_into, laptime_est)
               IN  battles' = found.battles /\ close' = found.close
            /\ populated' = ~recent
            /\ lapping' = IF recent THEN lapping
                          ELSE FindLappers(driver_list', time_into, laptime_est)
            /\ selected_index' = index
            /\ pc' = "refresh_list_only"
            /\ ObserveScan
            /\ UNCHANGED <<widgetVars, wrapVars, time_into, laptime_est, veh, now,
                           player_index, hotkeyVars>>

\* the lap-time estimates of a session: unavailable (<= 0) or MaxLap
LapTimes == {-1, 0, MaxLap}
RacingSpeed == YELLOW_SPEED_THRESHOLD + 12

\* the times into the lap of a session: the field is spread over half a
\* lap, so that gaps of both signs and of exactly half a lap occur
SessionTimes == 0..(MaxLap \div 2)

\* the cars of a session: all on track at racing speed, in grid order, the
\* last one shown the blue flag
SessionGrids ==
    {[i \in Vehicles |->
        [place |-> i + 1, cls |-> ClassByIndex(i), in_pits |-> FALSE,
         in_garage |-> FALSE, speed |-> RacingSpeed,
         blue |-> (i = NumVehicles - 1)]]}

Init ==
    /\ WrapIdle /\ WidgetsIdle
    /\ veh \in SessionGrids
    /\ time_into \in [Vehicles -> SessionTimes]
    /\ laptime_est \in LapTimes
    /\ now = 0
    /\ yellow_timestamps = [i \in Vehicles |-> None]
    /\ player_index \in (-1)..(NumVehicles - 1)
    /\ selected_index = None
    /\ populated = FALSE
    /\ last_slow = [i \in Vehicles |-> None]
    /\ recovered = [i \in Vehicles |-> None]
    /\ forgotten = [i \in Vehicles |-> None]
    /\ enable_player_index_override = TRUE /\ spectated = << >>
    /\ driver_list = << >>
    /\ class_positions = << >> /\ battles = {} /\ close = {} /\ lapping = {}
    /\ pc = "in"

Next == Refresh \/ SpectateSelected \/ RefreshListOnly

Spec == Init /\ [][Next]_vars

Scanned == pc \in {"update_drivers", "refresh_list_only"}

\* C6: with a lap-time estimate <= 0 the battle, close and lapping sets are
\* empty and every relative gap is zero, after update_drivers and after
\* _refresh_list_only, whatever the roster and the reference index.
C6_NoLapTimeDisables ==
    (Scanned /\ laptime_est <= 0) =>
        /\ battles = {} /\ close = {} /\ lapping = {}
        /\ \A i \in Vehicles : driver_list[i].rel_gap = 0

\* the table was filled for a negative estimate, with a reference and a
\* car away from it, and a blue car level with another
C6_Witness ==
    /\ Scanned /\ laptime_est < 0 /\ populated
    /\ selected_index >= 0
    /\ \E i \in Vehicles : time_into[i] # time_into[selected_index]
    /\ \E b, v \in Vehicles :
        /\ driver_list[b].is_blue /\ ~driver_list[v].is_blue
        /\ time_into[b] = time_into[v]

\* C7 as claimed: after update_drivers with lapTime > 0 every car other than
\* the reference has the gap WrapDelta(its time, the reference's time,
\* lapTime), the reference being given by index or found by name.
C7_GapToReference ==
    (pc = "update_drivers" /\ laptime_est > 0 /\ selected_index >= 0) =>
        \A i \in Vehicles \ {selected_index} :
            driver_list[i].rel_gap =
                WrapDelta(time_into[i], time_into[selected_index], laptime_est)

\* C8 as claimed: without a reference every relative gap is zero, after
\* update_drivers and after _refresh_list_only.
C8_NoReferenceZeroGaps ==
    (Scanned /\ selected_index < 0) =>
        \A i \in Vehicles : driver_list[i].rel_gap = 0

(* ------------------ the yellow flag while the cars move --------------- *)

\* the ticks of the observed window after the first one
MaxTicks == 6

\* time.monotonic() has no fixed origin: the window starts here
FirstTick == 2 * YELLOW_STICKY_DURATION
LastTick == FirstTick + MaxTicks

SlowSpeed == YELLOW_SPEED_THRESHOLD - 3

\* what the car under observation can do: crawl on track, drive at racing
\* speed, be in the pit lane, or stand in the garage
Motions ==
    {[speed |-> SlowSpeed, in_pits |-> FALSE, in_garage |-> FALSE],
     [speed |-> RacingSpeed, in_pits |-> FALSE, in_garage |-> FALSE],
     [speed |-> SlowSpeed, in_pits |-> TRUE, in_garage |-> FALSE],
     [speed |-> 0, in_pits |-> FALSE, in_garage |-> TRUE]}

\* the cars of the window: in grid order, level on track at racing speed,
\* none shown the blue flag; slot is api.read.vehicle.slot_id(i)
YellowGrids ==
    {[i \in Vehicles |->
        [place |-> i + 1, cls |-> ClassByIndex(i), in_pits |-> FALSE,
         in_garage |-> FALSE, speed |-> RacingSpeed, blue |-> FALSE,
         slot |-> i]]}

YellowInit ==
    /\ WrapIdle /\ WidgetsIdle
    /\ veh \in YellowGrids
    /\ time_into = [i \in Vehicles |-> 0]
    /\ laptime_est = MaxLap
    /\ now = FirstTick
    /\ yellow_timestamps = [i \in Vehicles |-> None]
    /\ player_index = 0
    /\ selected_index = None
    /\ populated = FALSE
    /\ last_slow = [i \in Vehicles |-> None]
    /\ recovered = [i \in Vehicles |-> None]
    /\ forgotten = [i \in Vehicles |-> None]
    /\ enable_player_index_override = TRUE /\ spectated = << >>
    /\ driver_list = << >>
    /\ class_positions = << >> /\ battles = {} /\ close = {} /\ lapping = {}
    /\ pc = "in"

\* the car of slot 0 changes speed or enters or leaves the pit lane
Drive ==
    \E i \in Vehicles, m \in Motions :
        /\ veh[i].slot = 0
        /\ veh' = [veh EXCEPT ![i].speed = m.speed, ![i].in_pits = m.in_pits,
                              ![i].in_garage = m.in_garage]
        /\ veh' # veh
        /\ pc' = "telemetry"
        /\ UNCHANGED <<widgetVars, wrapVars, rosterVars, outVars, now, yellow_timestamps,
                       player_index, selected_index, populated, obsVars,
                       hotkeyVars>>

\* a second passes; _update_timing refreshes the list about once a second,
\* so no second passes without a scan
Advance ==
    /\ pc = "refresh_list_only"
    /\ now < LastTick
    /\ now' = now + 1
    /\ pc' = "telemetry"
    /\ UNCHANGED <<widgetVars, wrapVars, rosterVars, outVars, veh, yellow_timestamps,
                   player_index, selected_index, populated, obsVars, hotkeyVars>>

\* f with the values at i and j exchanged
Swapped(f, i, j) == [f EXCEPT ![i] = f[j], ![j] = f[i]]

\* the game reorders its vehicle array: the cars at roster indices 0 and 1
\* exchange them, and all that is read by index comes with the car
Reorder ==
    /\ veh' = Swapped(veh, 0, 1)
    /\ time_into' = Swapped(time_into, 0, 1)
    /\ last_slow' = Swapped(last_slow, 0, 1)
    /\ recovered' = Swapped(recovered, 0, 1)
    /\ forgotten' = Swapped(forgotten, 0, 1)
    /\ pc' = "telemetry"
    /\ UNCHANGED <<widgetVars, wrapVars, laptime_est, driver_list, outVars, now,
                   yellow_timestamps, player_index, selected_index, populated,
                   hotkeyVars>>

YellowNext == RefreshListOnly \/ Drive \/ Advance
ReorderNext == RefreshListOnly \/ Drive \/ Advance \/ Reorder

SpecYellow == YellowInit /\ [][YellowNext]_vars
SpecReorder == YellowInit /\ [][ReorderNext]_vars

C13_HoldStaysWithVehicle ==
    Scanned =>
        \A i \in Vehicles :
            (~InPits(veh[i]) /\ veh[i].speed >= YELLOW_SPEED_THRESHOLD) =>
                (driver_list[i].is_yellow
                    <=> (last_slow[i] # None
                         /\ now - last_slow[i] < YELLOW_STICKY_DURATION))

MaxElapsed == 9

\* const_common.MAX_SECONDS: the value that hides a bar
MAX_SECONDS == 99999

\* the list is not shown while a widget is under study
ListIdle ==
    /\ WrapIdle /\ SessionIdle
    /\ time_into = << >> /\ laptime_est = 0 /\ driver_list = << >>
    /\ class_positions = << >> /\ battles = {} /\ close = {} /\ lapping = {}
    /\ pc = "idle"

\* PitTimer.update with the highlight test exclusive
PitTimerUpdate_HighlightExclusive(t, in_pits, elapsed_time, max_duration) ==
    LET start == IF ~t.last_in_pits /\ in_pits THEN elapsed_time ELSE t.timer_start
        t1 == [t EXCEPT !.timer_start = start, !.last_in_pits = in_pits]
        pit_time == elapsed_time - start
    IN  IF start = 0
        THEN [timer |-> t1, out |-> MAX_SECONDS]
        ELSE IF in_pits
        THEN [timer |-> [t1 EXCEPT !.last_pit_time = pit_time], out |-> pit_time]
        ELSE IF pit_time - t.last_pit_time < max_duration
        THEN [timer |-> t1, out |-> -t.last_pit_time]
        ELSE [timer |-> [t1 EXCEPT !.timer_start = 0], out |-> MAX_SECONDS]

\* PitTimer.update(in_pits, elapsed_time): the timer it leaves and the value
\* it returns; "not self._timer_start" is true of a start at 0 as well
PitTimerUpdate(t, in_pits, elapsed_time, max_duration) ==
    LET start == IF ~t.last_in_pits /\ in_pits THEN elapsed_time ELSE t.timer_start
        t1 == [t EXCEPT !.timer_start = start, !.last_in_pits = in_pits]
        pit_time == elapsed_time - start
    IN  IF start = 0
        THEN [timer |-> t1, out |-> MAX_SECONDS]
        ELSE IF in_pits
        THEN [timer |-> [t1 EXCEPT !.last_pit_time = pit_time], out |-> pit_time]
        ELSE IF pit_time - t.last_pit_time <= max_duration
        THEN [timer |-> t1, out |-> -t.last_pit_time]
        ELSE [timer |-> [t1 EXCEPT !.timer_start = 0], out |-> MAX_SECONDS]

\* BlueFlagTimer.update(in_race, elapsed_time), blue_flag being
\* api.read.session.blue_flag()
BlueFlagTimerUpdate(t, race_only, in_race, blue_flag, elapsed_time) ==
    IF ~race_only \/ in_race
    THEN IF blue_flag
         THEN LET start == IF t.timer_start = 0 THEN elapsed_time
                           ELSE t.timer_start
              IN  [timer |-> [t EXCEPT !.timer_start = start],
                   out |-> elapsed_time - start]
         ELSE [timer |-> [t EXCEPT !.timer_start = 0], out |-> MAX_SECONDS]
    ELSE [timer |-> t, out |-> MAX_SECONDS]

\* GreenFlagTimer.update with the green flag gone at the duration itself
GreenFlagTimerUpdate_DurationExclusive(t, start_lights, elapsed_time, duration) ==
    LET last == IF start_lights > 0 THEN elapsed_time ELSE t.last_lap_stime
    IN  IF last = -1
        THEN [timer |-> [t EXCEPT !.last_lap_stime = last], out |-> -1]
        ELSE IF elapsed_time - last >= duration
        THEN [timer |-> [t EXCEPT !.last_lap_stime = -1], out |-> -1]
        ELSE [timer |-> [t EXCEPT !.last_lap_stime = last], out |-> start_lights]

\* GreenFlagTimer.update that records the start lights once, when they
\* come on
GreenFlagTimerUpdate_FirstDetection(t, start_lights, elapsed_time, duration) ==
    LET last == IF start_lights > 0 /\ t.last_lap_stime = -1 THEN elapsed_time
                ELSE t.last_lap_stime
    IN  IF last = -1
        THEN [timer |-> [t EXCEPT !.last_lap_stime = last], out |-> -1]
        ELSE IF elapsed_time - last > duration
        THEN [timer |-> [t EXCEPT !.last_lap_stime = -1], out |-> -1]
        ELSE [timer |-> [t EXCEPT !.last_lap_stime = last], out |-> start_lights]

\* GreenFlagTimer.update(elapsed_time), start_lights being
\* api.read.session.start_lights()
GreenFlagTimerUpdate(t, start_lights, elapsed_time, duration) ==
    LET last == IF start_lights > 0 THEN elapsed_time ELSE t.last_lap_stime
    IN  IF last = -1
        THEN [timer |-> [t EXCEPT !.last_lap_stime = last], out |-> -1]
        ELSE IF elapsed_time - last > duration
        THEN [timer |-> [t EXCEPT !.last_lap_stime = -1], out |-> -1]
        ELSE [timer |-> [t EXCEPT !.last_lap_stime = last], out |-> start_lights]

\* TrafficTimer.update(in_pits, elapsed_time), speed being
\* api.read.vehicle.speed() and traffic_time minfo.vehicles.nearestTraffic
TrafficTimerUpdate(t, in_pits, elapsed_time, speed, traffic_time, cfg) ==
    LET start0 == IF t.last_in_pits /\ ~in_pits THEN elapsed_time
                  ELSE t.timer_start
        start == IF start0 # 0
                    /\ elapsed_time - start0 > cfg.traffic_pitout_duration
                 THEN 0 ELSE start0
        shown ==
            /\ traffic_time < cfg.traffic_maximum_time_gap
            /\ \/ /\ speed < cfg.traffic_low_speed_threshold
                  /\ cfg.traffic_low_speed_threshold > 0
               \/ in_pits
               \/ start # 0
    IN  [timer |-> [timer_start |-> start, last_in_pits |-> in_pits],
         out |-> IF shown THEN traffic_time ELSE MAX_SECONDS]

\* what the updates have been given so far: the last rising edge of
\* in_pits and the last in-pits tick given to the pit timer, the first
\* flagged tick of the running blue-flag episode, the tick the start lights
\* came on and the last tick they were on, and the last falling edge of
\* in_pits given to the traffic timer
FlagHistory(h, e, s, cfg) ==
    LET pit_called == ~(s.in_pits /\ s.in_garage)
        blue_on == (~cfg.show_blue_flag_for_race_only \/ s.in_race) /\ s.blue_flag
    IN  [pit_prev |-> IF pit_called THEN s.in_pits ELSE h.pit_prev,
         pit_entered |-> IF pit_called /\ s.in_pits /\ ~h.pit_prev THEN e
                         ELSE h.pit_entered,
         pit_last_in |-> IF pit_called /\ s.in_pits THEN e ELSE h.pit_last_in,
         blue_since |-> IF blue_on
                        THEN (IF h.blue_since = None THEN e ELSE h.blue_since)
                        ELSE None,
         blue_enabled |-> h.blue_enabled
                          /\ (~cfg.show_blue_flag_for_race_only \/ s.in_race),
         lights_prev |-> s.start_lights > 0,
         lights_first |-> IF s.start_lights > 0 /\ ~h.lights_prev THEN e
                          ELSE h.lights_first,
         lights_last |-> IF s.start_lights > 0 THEN e ELSE h.lights_last,
         traffic_prev |-> s.in_pits,
         pitout_at |-> IF h.traffic_prev /\ ~s.in_pits THEN e ELSE h.pitout_at]

\* the pit timer updated on every tick, in the garage too
PitTimerState_AlwaysUpdates(t, e, s, cfg) ==
    PitTimerUpdate(t, s.in_pits, e, cfg.pit_time_highlight_duration)

\* the pit timer part of timerEvent: in the pits and in the garage at once
\* the state is MAX_SECONDS and the timer is not updated
PitTimerState(t, e, s, cfg) ==
    IF s.in_pits /\ s.in_garage
    THEN [timer |-> t, out |-> MAX_SECONDS]
    ELSE PitTimerUpdate(t, s.in_pits, e, cfg.pit_time_highlight_duration)

\* the four timer updates of timerEvent on the timers ts: the timers they
\* leave and the values they return
TimersUpdate(ts, e, s, cfg) ==
    LET pit == PitTimerState(ts.pit_timer, e, s, cfg)
        blue == BlueFlagTimerUpdate(ts.blue_timer,
                                    cfg.show_blue_flag_for_race_only,
                                    s.in_race, s.blue_flag, e)
        green == GreenFlagTimerUpdate(ts.green_timer, s.start_lights, e,
                                      cfg.green_flag_duration)
        traf == TrafficTimerUpdate(ts.traffic_timer, s.in_pits, e, s.speed,
                                   s.nearest_traffic, cfg)
    IN  [pit_timer |-> pit.timer, pitting_state |-> pit.out,
         blue_timer |-> blue.timer, blue_state |-> blue.out,
         green_timer |-> green.timer, green_state |-> green.out,
         traffic_timer |-> traf.timer, traffic |-> traf.out]

\* timerEvent with every bar shown: lap_etime = e and the sample s are what
\* it reads
TimerEvent(e, s) ==
    LET pit == PitTimerState(pit_timer, e, s, wcfg)
        blue == BlueFlagTimerUpdate(blue_timer, wcfg.show_blue_flag_for_race_only,
                                    s.in_race, s.blue_flag, e)
        green == GreenFlagTimerUpdate(green_timer, s.start_lights, e,
                                      wcfg.green_flag_duration)
        traf == TrafficTimerUpdate(traffic_timer, s.in_pits, e, s.speed,
                                   s.nearest_traffic, wcfg)
    IN  /\ lap_etime' = e
        /\ tele' = s
        /\ pit_timer' = pit.timer /\ pitting_state' = pit.out
        /\ blue_timer' = blue.timer /\ blue_state' = blue.out
        /\ green_timer' = green.timer /\ green_state' = green.out
        /\ traffic_timer' = traf.timer /\ traffic' = traf.out
        /\ flag_hist' = FlagHistory(flag_hist, e, s, wcfg)
        /\ shadow' = IF shadow.on
                     THEN [shadow EXCEPT !.t = TimersUpdate(@, e, s, wcfg)]
                     ELSE shadow
        /\ fpc' = "tick"
        /\ UNCHANGED <<wcfg, wrapVars, rosterVars, outVars, pc, sessionVars, stintVars>>

\* the settings of the runs; the claims name the highlight duration
FlagSettings ==
    [pit_time_highlight_duration |-> 3,
     green_flag_duration |-> 2,
     show_blue_flag_for_race_only |-> FALSE,
     traffic_maximum_time_gap |-> 3,
     traffic_pitout_duration |-> 2,
     traffic_low_speed_threshold |-> 0]

\* a tick on which nothing is signalled: on track at speed, in the race,
\* no traffic near
QuietSample ==
    [in_pits |-> FALSE, in_garage |-> FALSE, in_race |-> TRUE,
     blue_flag |-> FALSE, start_lights |-> 0, speed |-> RacingSpeed,
     nearest_traffic |-> MAX_SECONDS]

\* the elapsed time of the next tick: the same reading again, or a second on
NextElapsed == {e \in {lap_etime, lap_etime + 1} : e <= MaxElapsed}

\* the widget as constructed, with settings cfg
FlagInit(cfg) ==
    /\ ListIdle /\ StintIdle
    /\ wcfg = cfg
    /\ lap_etime = 0
    /\ tele = QuietSample
    /\ pit_timer = [timer_start |-> 0, last_in_pits |-> FALSE, last_pit_time |-> 0]
    /\ green_timer = [last_lap_stime |-> -1]
    /\ blue_timer = [timer_start |-> 0]
    /\ traffic_timer = [timer_start |-> 0, last_in_pits |-> FALSE]
    /\ pitting_state = MAX_SECONDS /\ blue_state = MAX_SECONDS
    /\ green_state = -1 /\ traffic = MAX_SECONDS
    /\ flag_hist = [pit_prev |-> FALSE, pit_entered |-> None, pit_last_in |-> None,
                    blue_since |-> None, blue_enabled |-> TRUE,
                    lights_prev |-> FALSE, lights_first |-> None,
                    lights_last |-> None,
                    traffic_prev |-> FALSE, pitout_at |-> None]
    /\ shadow = [on |-> FALSE, t |-> << >>]
    /\ fpc = "in"

Ticked == fpc = "tick"

(* ------------------------------ the pit timer ------------------------- *)

PitInit == FlagInit(FlagSettings)

\* the car drives in and out of the pit lane
PitTick ==
    \E e \in NextElapsed, p \in BOOLEAN :
        TimerEvent(e, [QuietSample EXCEPT !.in_pits = p])

SpecPit == PitInit /\ [][PitTick]_vars

\* C14 as claimed: in the pits from t=0 and last in the pits at t=5, with a
\* highlight duration of 3 s, the pit timer shows -5 on every tick in (5, 8]
\* and nothing (MAX_SECONDS) on every later tick.
C14_PitExample ==
    (/\ Ticked /\ ~tele.in_pits
     /\ wcfg.pit_time_highlight_duration = 3
     /\ flag_hist.pit_entered = 0 /\ flag_hist.pit_last_in = 5) =>
        pitting_state = IF lap_etime <= 8 THEN -5 ELSE MAX_SECONDS

\* C15 as claimed: after a rising edge at t0 the timer returns elapsed - t0
\* on every in-pits tick; out of the pits it returns minus the last in-pits
\* duration while no more than the highlight duration has passed since that
\* tick, and MAX_SECONDS on every other tick.
C15_PitProtocol ==
    Ticked =>
        pitting_state =
            IF tele.in_pits
            THEN lap_etime - flag_hist.pit_entered
            ELSE IF /\ flag_hist.pit_entered # None
                    /\ lap_etime - flag_hist.pit_last_in
                           <= wcfg.pit_time_highlight_duration
            THEN -(flag_hist.pit_last_in - flag_hist.pit_entered)
            ELSE MAX_SECONDS

(* ---------------------------- the blue flag timer --------------------- *)

BlueInit ==
    \E race_only \in BOOLEAN :
        FlagInit([FlagSettings EXCEPT !.show_blue_flag_for_race_only = race_only])

\* the blue flag is shown and withdrawn, in the race and out of it
BlueTick ==
    \E e \in NextElapsed, b \in BOOLEAN, r \in BOOLEAN :
        TimerEvent(e, [QuietSample EXCEPT !.blue_flag = b, !.in_race = r])

SpecBlue == BlueInit /\ [][BlueTick]_vars

\* C16 as claimed: with the timer enabled on every tick, a flagged tick
\* returns the elapsed time since the first flagged tick of its episode, and
\* a tick with the flag clear returns MAX_SECONDS and clears the start.
C16_BlueEpisode ==
    (Ticked /\ flag_hist.blue_enabled) =>
        IF tele.blue_flag
        THEN blue_state = lap_etime - flag_hist.blue_since
        ELSE blue_state = MAX_SECONDS /\ blue_timer.timer_start = 0

(* --------------------------- the green flag timer --------------------- *)

GreenInit == FlagInit(FlagSettings)

\* the start lights count down, go out, and may come on again
GreenTick ==
    \E e \in NextElapsed, l \in 0..2 :
        TimerEvent(e, [QuietSample EXCEPT !.start_lights = l])

SpecGreen == GreenInit /\ [][GreenTick]_vars

\* C17 as claimed: once more than the green flag duration has passed since
\* the start lights came on, the timer returns -1, lights on or not.
C17_CapFromFirstDetection ==
    (/\ Ticked /\ flag_hist.lights_first # None
     /\ lap_etime - flag_hist.lights_first > wcfg.green_flag_duration) =>
        green_state = -1

\* C17 amended: while the start lights are on the timer returns their
\* value, however long they stay on; once more than the green flag duration
\* has passed since the last tick they were on, it returns -1.
C17_CapFromLightsOut ==
    Ticked =>
        /\ tele.start_lights > 0 => green_state = tele.start_lights
        /\ (/\ tele.start_lights = 0 /\ flag_hist.lights_last # None
            /\ lap_etime - flag_hist.lights_last > wcfg.green_flag_duration)
               => green_state = -1

\* the lights stayed on for longer than the green flag duration, and the
\* bar went out that long after they did
C17_Witness ==
    /\ Ticked /\ tele.start_lights = 0
    /\ flag_hist.lights_first # None
    /\ flag_hist.lights_last - flag_hist.lights_first > wcfg.green_flag_duration
    /\ lap_etime - flag_hist.lights_last = wcfg.green_flag_duration + 1
    /\ green_state = -1

(* ----------------------------- the traffic timer ---------------------- *)

TrafficInit ==
    \E threshold \in {0, YELLOW_SPEED_THRESHOLD} :
        FlagInit([FlagSettings EXCEPT !.traffic_low_speed_threshold = threshold])

\* traffic just inside the maximum gap, exactly at it, and none
TrafficGaps ==
    {FlagSettings.traffic_maximum_time_gap - 1,
     FlagSettings.traffic_maximum_time_gap, MAX_SECONDS}

\* the car drives in and out of the pit lane, slowly or at speed, with
\* traffic near or not
TrafficTick ==
    \E e \in NextElapsed, p \in BOOLEAN, v \in {SlowSpeed, RacingSpeed},
       g \in TrafficGaps :
        TimerEvent(e, [QuietSample EXCEPT !.in_pits = p, !.speed = v,
                                          !.nearest_traffic = g])

SpecTraffic == TrafficInit /\ [][TrafficTick]_vars

\* the tick is within the grace window of the last pit exit
InPitoutWindow ==
    /\ flag_hist.pitout_at # None
    /\ lap_etime - flag_hist.pitout_at <= wcfg.traffic_pitout_duration

\* the car is below the low-speed threshold, if there is one
BelowLowSpeed ==
    /\ wcfg.traffic_low_speed_threshold > 0
    /\ tele.speed < wcfg.traffic_low_speed_threshold

\* C18 as claimed: the gap is returned iff it is below the maximum and the
\* car is in the pits, within the pit-out grace window or below the
\* low-speed threshold; every other tick returns MAX_SECONDS.
C18_TrafficShown ==
    Ticked =>
        /\ traffic =
            IF /\ tele.nearest_traffic < wcfg.traffic_maximum_time_gap
               /\ (tele.in_pits \/ InPitoutWindow \/ BelowLowSpeed)
            THEN tele.nearest_traffic
            ELSE MAX_SECONDS
        /\ traffic # MAX_SECONDS => traffic < wcfg.traffic_maximum_time_gap

(* --------------------------- the stint history ------------------------ *)

\* the largest elapsed session time of a run of the stint widget, in seconds
MaxSession == 6
\* the largest stint_history_count setting
MaxHistory == 2

\* const_common.FLOAT_INF, the lap start time before the first lap
FLOAT_INF == 999999

\* the value n / d of a float the model keeps exact
Ratio(n, d) == [num |-> n, den |-> d]

Max(a, b) == IF a >= b THEN a ELSE b

\* self.stint_data as constructed: [0, 0.0, 0.0, 0.0, "--", 0.0, 0.0, 0.0];
\* its tuple is self.empty_data
EmptyData ==
    [laps |-> 0, time |-> 0, fuel |-> 0, energy |-> 0, cmpd |-> "--",
     wear |-> 0, delta |-> Ratio(0, 1), consistency |-> Ratio(0, 1)]

\* a deque without maxlen
AppendLeft_Unbounded(h, x) == <<x>> \o h

\* history_data.appendleft(x) on a deque of maxlen Len(h) that is full: the
\* last entry is dropped
AppendLeft(h, x) == <<x>> \o SubSeq(h, 1, Len(h) - 1)

\* a pit stop that appends the stint data and goes on without yielding True
StintBranch_SilentClose(g, s, data, cfg) ==
    IF s.in_garage \/ s.pre_race \/ Abs(g.last_time - s.elapsed_time) > 4
    THEN LET closed == g.stint_running /\ data.time >= cfg.minimum_stint_seconds
         IN  [gen |-> [g EXCEPT !.reset_stint = TRUE],
              push |-> closed, yield |-> closed]
    ELSE IF ~s.in_pits
    THEN [gen |-> [g EXCEPT !.last_fuel_curr = s.fuel_curr,
                            !.last_energy_curr = s.energy_curr,
                            !.last_wear_avg = s.wear_avg,
                            !.stint_running = TRUE],
          push |-> FALSE, yield |-> FALSE]
    ELSE IF g.stint_running
    THEN LET stop == IF s.speed > 1 THEN s.elapsed_time ELSE g.last_time_stop
             closed == \/ g.last_wear_avg > s.wear_avg
                       \/ g.last_fuel_curr < s.fuel_curr
                       \/ g.last_energy_curr < s.energy_curr
                       \/ s.elapsed_time - stop > cfg.minimum_pitstop_seconds
         IN  [gen |-> [g EXCEPT !.last_time_stop = stop,
                                !.reset_stint = IF closed THEN TRUE ELSE @],
              push |-> closed, yield |-> FALSE]
    ELSE [gen |-> g, push |-> FALSE, yield |-> FALSE]

\* the first part of one pass of the loop of stint_history_stats, from the
\* telemetry read to "last_time = elapsed_time": the locals it leaves,
\* whether it appends the stint data to the history (push) and whether it
\* yields True there (yield)
StintBranch(g, s, data, cfg) ==
    IF s.in_garage \/ s.pre_race \/ Abs(g.last_time - s.elapsed_time) > 4
    THEN LET closed == g.stint_running /\ data.time >= cfg.minimum_stint_seconds
         IN  [gen |-> [g EXCEPT !.reset_stint = TRUE],
              push |-> closed, yield |-> closed]
    ELSE IF ~s.in_pits
    THEN [gen |-> [g EXCEPT !.last_fuel_curr = s.fuel_curr,
                            !.last_energy_curr = s.energy_curr,
                            !.last_wear_avg = s.wear_avg,
                            !.stint_running = TRUE],
          push |-> FALSE, yield |-> FALSE]
    ELSE IF g.stint_running
    THEN LET stop == IF s.speed > 1 THEN s.elapsed_time ELSE g.last_time_stop
             closed == \/ g.last_wear_avg > s.wear_avg
                       \/ g.last_fuel_curr < s.fuel_curr
                       \/ g.last_energy_curr < s.energy_curr
                       \/ s.elapsed_time - stop > cfg.minimum_pitstop_seconds
         IN  [gen |-> [g EXCEPT !.last_time_stop = stop,
                                !.reset_stint = IF closed THEN TRUE ELSE @],
              push |-> closed, yield |-> closed]
    ELSE [gen |-> g, push |-> FALSE, yield |-> FALSE]

\* a reset that leaves stint_running as it is
StintReset_StillRunning(g, s) ==
    LET g1 == IF g.reset_stint
              THEN [g EXCEPT !.reset_stint = FALSE,
                             !.start_laps = s.lap_number,
                             !.start_time = s.elapsed_time,
                             !.start_fuel = s.fuel_curr,
                             !.start_energy = s.energy_curr,
                             !.start_wear = s.wear_avg,
                             !.pitting = TRUE,
                             !.last_lap_stime = FLOAT_INF,
                             !.stint_laps = 0, !.stint_time = 0,
                             !.stint_fastest = MAX_SECONDS,
                             !.consistency = Ratio(1, 1),
                             !.delta = Ratio(0, 1)]
              ELSE g
    IN  [g1 EXCEPT !.start_fuel = Max(@, s.fuel_curr),
                   !.start_energy = Max(@, s.energy_curr)]

\* a reset that leaves the lap in progress countable
StintReset_LapGoesOn(g, s) ==
    LET g1 == IF g.reset_stint
              THEN [g EXCEPT !.reset_stint = FALSE, !.stint_running = FALSE,
                             !.start_laps = s.lap_number,
                             !.start_time = s.elapsed_time,
                             !.start_fuel = s.fuel_curr,
                             !.start_energy = s.energy_curr,
                             !.start_wear = s.wear_avg,
                             !.pitting = FALSE,
                             !.last_lap_stime = s.lap_stime,
                             !.stint_laps = 0, !.stint_time = 0,
                             !.stint_fastest = MAX_SECONDS,
                             !.consistency = Ratio(1, 1),
                             !.delta = Ratio(0, 1)]
              ELSE g
    IN  [g1 EXCEPT !.start_fuel = Max(@, s.fuel_curr),
                   !.start_energy = Max(@, s.energy_curr)]

\* "if reset_stint:" and the two lines that raise the start levels
StintReset(g, s) ==
    LET g1 == IF g.reset_stint
              THEN [g EXCEPT !.reset_stint = FALSE, !.stint_running = FALSE,
                             !.start_laps = s.lap_number,
                             !.start_time = s.elapsed_time,
                             !.start_fuel = s.fuel_curr,
                             !.start_energy = s.energy_curr,
                             !.start_wear = s.wear_avg,
                             !.pitting = TRUE,
                             !.last_lap_stime = FLOAT_INF,
                             !.stint_laps = 0, !.stint_time = 0,
                             !.stint_fastest = MAX_SECONDS,
                             !.consistency = Ratio(1, 1),
                             !.delta = Ratio(0, 1)]
              ELSE g
    IN  [g1 EXCEPT !.start_fuel = Max(@, s.fuel_curr),
                   !.start_energy = Max(@, s.energy_curr)]

\* laps counted whatever the sign of their lap time
StintLap_AnyLapTime(g, s, cfg) ==
    LET pitting == g.pitting \/ s.in_pits
        last_laptime == s.lap_stime - g.last_lap_stime
        counted == /\ ~pitting
                   /\ s.carcass_temperature > cfg.minimum_tyre_temperature
        laps == g.stint_laps + 1
        time == g.stint_time + last_laptime
        fastest == IF g.stint_fastest > last_laptime THEN last_laptime
                   ELSE g.stint_fastest
        \* stint_average = (time - fastest) / (laps - 1)
        rated == laps > 1 /\ time - fastest > 0
        g1 == IF counted
              THEN [g EXCEPT !.stint_laps = laps, !.stint_time = time,
                             !.stint_fastest = fastest,
                             !.consistency =
                                IF rated
                                THEN Ratio(fastest * (laps - 1), time - fastest)
                                ELSE @,
                             !.delta =
                                IF rated
                                THEN Ratio(time - fastest * laps, laps - 1)
                                ELSE @]
              ELSE g
    IN  IF g.last_lap_stime # s.lap_stime
        THEN [g1 EXCEPT !.pitting = (last_laptime <= 0),
                        !.last_lap_stime = s.lap_stime]
        ELSE [g EXCEPT !.pitting = pitting]

\* the average taken over all the laps, the fastest included
StintLap_MeanOfAll(g, s, cfg) ==
    LET pitting == g.pitting \/ s.in_pits
        last_laptime == s.lap_stime - g.last_lap_stime
        counted == /\ ~pitting /\ last_laptime > 0
                   /\ s.carcass_temperature > cfg.minimum_tyre_temperature
        laps == g.stint_laps + 1
        time == g.stint_time + last_laptime
        fastest == IF g.stint_fastest > last_laptime THEN last_laptime
                   ELSE g.stint_fastest
        rated == laps > 1 /\ time > 0
        g1 == IF counted
              THEN [g EXCEPT !.stint_laps = laps, !.stint_time = time,
                             !.stint_fastest = fastest,
                             !.consistency =
                                IF rated
                                THEN Ratio(fastest * laps, time)
                                ELSE @,
                             !.delta =
                                IF rated
                                THEN Ratio(time - fastest * laps, laps)
                                ELSE @]
              ELSE g
    IN  IF g.last_lap_stime # s.lap_stime
        THEN [g1 EXCEPT !.pitting = (last_laptime <= 0),
                        !.last_lap_stime = s.lap_stime]
        ELSE [g EXCEPT !.pitting = pitting]

\* "# Stint delta & consistency": a lap is counted when the lap start time
\* changes
StintLap(g, s, cfg) ==
    LET pitting == g.pitting \/ s.in_pits
        last_laptime == s.lap_stime - g.last_lap_stime
        counted == /\ ~pitting /\ last_laptime > 0
                   /\ s.carcass_temperature > cfg.minimum_tyre_temperature
        laps == g.stint_laps + 1
        time == g.stint_time + last_laptime
        fastest == IF g.stint_fastest > last_laptime THEN last_laptime
                   ELSE g.stint_fastest
        \* stint_average = (time - fastest) / (laps - 1)
        rated == laps > 1 /\ time - fastest > 0
        g1 == IF counted
              THEN [g EXCEPT !.stint_laps = laps, !.stint_time = time,
                             !.stint_fastest = fastest,
                             !.consistency =
                                IF rated
                                THEN Ratio(fastest * (laps - 1), time - fastest)
                                ELSE @,
                             !.delta =
                                IF rated
                                THEN Ratio(time - fastest * laps, laps - 1)
                                ELSE @]
              ELSE g
    IN  IF g.last_lap_stime # s.lap_stime
        THEN [g1 EXCEPT !.pitting = (last_laptime <= 0),
                        !.last_lap_stime = s.lap_stime]
        ELSE [g EXCEPT !.pitting = pitting]

\* stint data that show the fuel and energy left, not the amounts used
StintData_Remaining(g, s, data) ==
    [laps |-> Max(s.lap_number - g.start_laps, 0),
     time |-> Max(s.elapsed_time - g.start_time, 0),
     fuel |-> s.fuel_curr,
     energy |-> s.energy_curr,
     cmpd |-> data.cmpd,
     wear |-> Max(s.wear_avg - g.start_wear, 0),
     delta |-> g.delta,
     consistency |-> Ratio(100 * g.consistency.num, g.consistency.den)]

\* stint data without the max(..., 0)
StintData_Unclamped(g, s, data) ==
    [laps |-> s.lap_number - g.start_laps,
     time |-> s.elapsed_time - g.start_time,
     fuel |-> g.start_fuel - s.fuel_curr,
     energy |-> g.start_energy - s.energy_curr,
     cmpd |-> data.cmpd,
     wear |-> s.wear_avg - g.start_wear,
     delta |-> g.delta,
     consistency |-> Ratio(100 * g.consistency.num, g.consistency.den)]

\* "# Current stint data": the list the widget shows
StintData(g, s, data) ==
    [laps |-> Max(s.lap_number - g.start_laps, 0),
     time |-> Max(s.elapsed_time - g.start_time, 0),
     fuel |-> Max(g.start_fuel - s.fuel_curr, 0),
     energy |-> Max(g.start_energy - s.energy_curr, 0),
     cmpd |-> data.cmpd,
     wear |-> Max(s.wear_avg - g.start_wear, 0),
     delta |-> g.delta,
     consistency |-> Ratio(100 * g.consistency.num, g.consistency.den)]

\* the rest of the pass, from "last_time = elapsed_time" to the next
\* "yield False", on the sample s the locals hold
StintFinish(g, s, data, cfg) ==
    LET g1 == [g EXCEPT !.last_time = s.elapsed_time]
        g2 == StintLap(StintReset(g1, s), s, cfg)
        \* the compound is looked up once per stint
        d1 == IF g1.reset_stint THEN [data EXCEPT !.cmpd = s.compound] ELSE data
    IN  [gen |-> g2, data |-> StintData(g2, s, d1)]

\* a record made of the data as the closing tick would write them
ClosedRecord_Updated(data, g, s) == StintData(g, s, data)

\* tuple(stint_data) in the two branches that close a stint: the list as
\* the call before left it, the lines that write it coming after the yield
ClosedRecord(data, g, s) == data

\* a car out on track at speed on its first lap
TrackSample ==
    [lap_stime |-> 0, lap_number |-> 0, elapsed_time |-> 0,
     in_pits |-> FALSE, in_garage |-> FALSE, pre_race |-> FALSE,
     wear_avg |-> 0, fuel_curr |-> 1, energy_curr |-> 0,
     speed |-> RacingSpeed, carcass_temperature |-> 80, compound |-> "MM"]

\* timerEvent of the stint widget: next(self.stint_stats). Suspended at
\* "yield False" the generator reads the sample s; suspended at "yield True"
\* it goes on with the sample it read on the call before, which gen.sample
\* holds until then (every local of the sample is read again before its
\* next use, so the sample is not kept longer)
StintTimerEvent(e, s0) ==
    LET s == [s0 EXCEPT !.elapsed_time = e]
    IN  /\ session_etime' = e
        /\ IF gen.pos = "yield False"
           THEN LET b == StintBranch(gen, s, stint_data, stint_cfg)
                    f == StintFinish(b.gen, s, stint_data, stint_cfg)
                IN  /\ history_data' =
                        IF b.push
                        THEN AppendLeft(history_data,
                                        ClosedRecord(stint_data, b.gen, s))
                        ELSE history_data
                    /\ pushed' = IF b.push /\ pushed <= MaxHistory THEN pushed + 1
                                 ELSE pushed
                    /\ IF b.yield
                       THEN /\ gen' = [b.gen EXCEPT !.pos = "yield True",
                                                    !.sample = s]
                            /\ stint_data' = stint_data
                            /\ did_close' = TRUE
                       ELSE /\ gen' = f.gen
                            /\ stint_data' = f.data
                            /\ did_close' = FALSE
           ELSE LET f == StintFinish(gen, gen.sample, stint_data, stint_cfg)
                IN  /\ gen' = [f.gen EXCEPT !.pos = "yield False",
                                             !.sample = TrackSample]
                    /\ stint_data' = f.data
                    /\ did_close' = FALSE
                    /\ UNCHANGED <<history_data, pushed>>
        /\ spc' = "tick"
        /\ UNCHANGED <<stint_cfg, wrapVars, rosterVars, outVars, pc, sessionVars,
                       flagVars>>

\* the lap in progress as the ticks show it, before the first tick: whether
\* the car was seen in the pits after the tick that began the lap, whether a
\* tick of the lap set reset_stint, whether the lap began with the lap
\* start time moving back, and the ticks of the lap so far (counted to 2);
\* and, on the tick that ends a lap, the same of the lap ended and its time
NoLap ==
    [pits |-> FALSE, reset |-> FALSE, bad |-> FALSE, ticks |-> 0,
     ended |-> FALSE, ended_pits |-> FALSE, ended_reset |-> FALSE,
     ended_bad |-> FALSE, ended_time |-> 0]

\* where the ticks have shown the car, before the first tick: whether a tick
\* since the last reset showed it on track, where the last tick showed it,
\* for how many ticks on end (counted to 3), and the records pushed by them
NoStay == [ran |-> FALSE, kind |-> "none", ticks |-> 0, pushes |-> 0]

\* what a timerEvent at elapsed time e with telemetry s0 is seen to do: the
\* sample the telemetry holds, the elapsed time of the last tick that did
\* not see the car in the pits at 1 m/s or less, whether the call gets to
\* "if reset_stint:" with the flag set, and the number of appendleft calls
\* it makes
Observed(e, s0) ==
    LET s == [s0 EXCEPT !.elapsed_time = e]
        b == StintBranch(gen, s, stint_data, stint_cfg)
        moved == IF s.in_pits /\ s.speed <= 1 THEN offered.moved ELSE e
    IN  IF gen.pos = "yield False"
        THEN [sample |-> s, since |-> offered.since, moved |-> moved,
              reset |-> ~b.yield /\ b.gen.reset_stint,
              appends |-> IF b.push THEN 1 ELSE 0, lap |-> offered.lap,
              stay |-> offered.stay]
        ELSE [sample |-> s, since |-> offered.since, moved |-> moved,
              reset |-> gen.reset_stint, appends |-> 0, lap |-> offered.lap,
              stay |-> offered.stay]

\* the same, with the elapsed time of the tick that saw the car enter or
\* leave the garage kept in "since"
ObservedOuting(e, s0) ==
    [Observed(e, s0) EXCEPT
        !.since = IF s0.in_garage = offered.sample.in_garage THEN @ ELSE e]

\* the settings of the runs, as passed to stint_history_stats, and the
\* history count
StintSettings(count) ==
    [stint_history_count |-> count,
     minimum_stint_seconds |-> 3,
     minimum_pitstop_seconds |-> 2,
     minimum_tyre_temperature |-> 0]

\* the widget as constructed with settings cfg; generator_init has run the
\* generator to its first "yield False"
StintInit(cfg) ==
    /\ ListIdle /\ FlagIdle
    /\ stint_cfg = cfg
    /\ session_etime = 0
    /\ gen = [pos |-> "yield False", sample |-> TrackSample,
              reset_stint |-> TRUE, stint_running |-> FALSE,
              start_laps |-> 0, start_time |-> 0, start_fuel |-> 0,
              start_energy |-> 0, start_wear |-> 0,
              last_time |-> 0, last_wear_avg |-> 0, last_fuel_curr |-> 0,
              last_energy_curr |-> 0, last_time_stop |-> 0,
              pitting |-> TRUE, last_lap_stime |-> FLOAT_INF,
              stint_laps |-> 0, stint_time |-> 0,
              stint_fastest |-> MAX_SECONDS,
              consistency |-> Ratio(1, 1), delta |-> Ratio(0, 1)]
    /\ stint_data = EmptyData
    /\ history_data = [i \in 1..Max(cfg.stint_history_count, 1) |-> EmptyData]
    /\ did_close = FALSE
    /\ pushed = 0
    /\ offered = [sample |-> TrackSample, since |-> 0, moved |-> 0,
                  reset |-> FALSE, appends |-> 0, lap |-> NoLap,
                  stay |-> NoStay]
    /\ spc = "in"

\* what the car can be doing at a tick: driving on track, driving through
\* the pit lane, standing in its pit box, standing there refuelled, in the
\* garage, or waiting for the race to start
Situations ==
    {TrackSample,
     [TrackSample EXCEPT !.in_pits = TRUE],
     [TrackSample EXCEPT !.in_pits = TRUE, !.speed = 0],
     [TrackSample EXCEPT !.in_pits = TRUE, !.speed = 0, !.fuel_curr = 2],
     [TrackSample EXCEPT !.in_pits = TRUE, !.in_garage = TRUE, !.speed = 0],
     [TrackSample EXCEPT !.pre_race = TRUE, !.speed = 0]}

\* the elapsed time of the next tick: the same reading again, a second on,
\* or on after a pause of the game
NextSession ==
    {e \in {session_etime, session_etime + 1, session_etime + 5} :
        e <= MaxSession}

HistoryInit ==
    \E count \in 0..MaxHistory : StintInit(StintSettings(count))

HistoryTick ==
    \E e \in NextSession, s \in Situations :
        StintTimerEvent(e, s) /\ UNCHANGED offered

SpecHistory == HistoryInit /\ [][HistoryTick]_vars

\* C19 as claimed: no record of the history is of a stint shorter than the
\* minimum stint duration, whichever way the stint was closed.
C19_NoShortStint ==
    \A i \in DOMAIN history_data :
        \/ history_data[i] = EmptyData
        \/ history_data[i].time >= stint_cfg.minimum_stint_seconds

\* C20: the history always holds max(stint_history_count, 1) entries, empty
\* ones at first; a call that closes a stint puts the stint data as they
\* stand at position 0 and moves every entry but the last one back by one,
\* and no other call changes the history, while the stint data go on
\* changing.
C20_FixedCapacityHistory ==
    /\ [](Len(history_data) = Max(stint_cfg.stint_history_count, 1))
    /\ [][IF did_close'
          THEN /\ history_data'[1] = stint_data
               /\ \A i \in 2..Len(history_data) :
                     history_data'[i] = history_data[i - 1]
          ELSE history_data' = history_data]_vars

\* more stints closed than the history holds, the newest first, and the
\* current stint different from its snapshot
C20_Witness ==
    /\ spc = "tick"
    /\ pushed > Len(history_data) /\ Len(history_data) > 1
    /\ history_data[1] # history_data[2]
    /\ \A i \in DOMAIN history_data : history_data[i] # EmptyData
    /\ stint_data # history_data[1]

(* ------------------------ one outing without a stop -------------------- *)

\* the most seconds the car waits in the garage before the outing, and the
\* most ticks of three seconds it is followed there after it
MaxStay == 2

\* the outing: the laps driven and the seconds each of them takes
Outing == [laps |-> 10, lap_seconds |-> 90]

\* the seconds between two ticks of the outing; more than 4 is a pause
TickSteps == {1, 3}

\* the telemetry of the outing at elapsed time e, the car having left the
\* garage at elapsed time out: the laps follow each other from then on, fuel
\* goes down and wear up with every lap
OutingSample(e, out, place) ==
    LET lap == (e - out) \div Outing.lap_seconds
    IN  [TrackSample EXCEPT
            !.elapsed_time = e,
            !.lap_number = lap,
            !.lap_stime = out + lap * Outing.lap_seconds,
            !.fuel_curr = Outing.laps + 2 - lap,
            !.wear_avg = lap,
            !.in_pits = place \in {"garage", "pit lane"},
            !.in_garage = (place = "garage"),
            !.speed = IF place = "garage" THEN 0 ELSE RacingSpeed]

\* the elapsed time at which the car of the outing left the garage
LeftAt == offered.sample.lap_stime
            - offered.sample.lap_number * Outing.lap_seconds

\* where the outing stands, from the telemetry of the last tick
Phase ==
    IF spc = "in" THEN "in"
    ELSE IF ~offered.sample.in_garage THEN "drive"
    ELSE IF offered.sample.lap_number = 0 THEN "garage"
    ELSE "back"

OutingInit ==
    /\ \E m \in {0, 3, Outing.laps * Outing.lap_seconds - 1} :
          StintInit([StintSettings(2) EXCEPT !.minimum_stint_seconds = m])

\* a tick with the car waiting in the garage before the outing
GarageTick ==
    /\ Phase \in {"in", "garage"}
    /\ \E e \in {session_etime, session_etime + 1} :
          /\ e <= MaxStay
          /\ offered' = ObservedOuting(e, OutingSample(e, e, "garage"))
          /\ StintTimerEvent(e, OutingSample(e, e, "garage"))

\* a tick of the outing: down the pit lane first, then on track, and after
\* the last lap possibly up the pit lane again without stopping
DriveTick ==
    /\ Phase \in {"garage", "drive"}
    /\ \E step \in TickSteps, place \in {"pit lane", "track"} :
          LET e == session_etime + step
              out == IF Phase = "garage" THEN e ELSE LeftAt
              s == OutingSample(e, out, place)
          IN  /\ s.lap_number <= Outing.laps
              /\ place = "pit lane" =>
                    \/ offered.sample.in_pits /\ s.lap_number = 0
                    \/ s.lap_number = Outing.laps
              /\ s.lap_number > 0 => Phase = "drive"
              /\ (place = "track" /\ Phase = "drive" /\ offered.sample.in_pits)
                    => offered.sample.lap_number = 0
              /\ offered' = ObservedOuting(e, s)
              /\ StintTimerEvent(e, s)

\* the car is back in the garage after the last lap, and stays there
ReturnTick ==
    /\ \/ Phase = "drive" /\ offered.sample.lap_number = Outing.laps
       \/ Phase = "back"
    /\ \E step \in TickSteps :
          LET e == session_etime + step
              s == [OutingSample(e, LeftAt, "garage") EXCEPT
                       !.lap_number = offered.sample.lap_number,
                       !.lap_stime = offered.sample.lap_stime]
          IN  /\ Phase = "back" => e <= offered.since + MaxStay * 3
              /\ Phase = "drive" => e < LeftAt + (Outing.laps + 1) * Outing.lap_seconds
              /\ offered' = ObservedOuting(e, s)
              /\ StintTimerEvent(e, s)

OutingNext == GarageTick \/ DriveTick \/ ReturnTick

SpecOuting == OutingInit /\ [][OutingNext]_vars

\* C21: the car that leaves the garage, drives its laps without a pit stop
\* and returns to the garage has exactly one record in the history from the
\* return on, with the laps of the outing, and none before.
C21_OneRecordPerOuting ==
    IF Phase = "back"
    THEN /\ pushed = 1
         /\ history_data[1].laps = Outing.laps
         /\ history_data[2] = EmptyData
    ELSE pushed = 0 /\ history_data[1] = EmptyData

\* the car has been back in the garage for some ticks after the record
C21_Witness ==
    /\ Phase = "back" /\ gen.pos = "yield False" /\ ~did_close
    /\ session_etime > offered.since + 3
    /\ history_data[1].laps = Outing.laps
    /\ history_data[1].time >= Outing.laps * Outing.lap_seconds

(* --------------------------- fuel and energy used ---------------------- *)

\* the largest fuel reading; the energy reading is 0 or 1
MaxFuel == 2

\* where the car can be at a tick, and the telemetry that goes with it
Places == {"track", "pit lane", "garage"}

PlaceSample(place) ==
    [TrackSample EXCEPT
        !.in_pits = place \in {"garage", "pit lane"},
        !.in_garage = (place = "garage"),
        !.speed = IF place = "garage" THEN 0 ELSE RacingSpeed]

FuelInit == StintInit(StintSettings(1))

\* a tick with any fuel and energy reading, lower or higher than the last;
\* the ticks follow each other within one second of session time
FuelTick ==
    \E place \in Places, fuel \in 0..MaxFuel, energy \in {0, 1} :
        LET e == session_etime
            s == [PlaceSample(place) EXCEPT !.fuel_curr = fuel,
                                           !.energy_curr = energy]
        IN  /\ offered' = Observed(e, s)
            /\ StintTimerEvent(e, s)

SpecFuel == FuelInit /\ [][FuelTick]_vars

\* C22 as claimed: on a tick that does not reset the stint, the fuel used
\* and the energy used are not lower than on the tick before, whatever the
\* readings do.
C22_UsedNeverDecreases ==
    [][~offered'.reset =>
          /\ stint_data'.fuel >= stint_data.fuel
          /\ stint_data'.energy >= stint_data.energy]_vars

\* C22, amended: on a tick that does not reset the stint, the fuel used is
\* not lower than on the tick before unless the fuel reading is higher than
\* on the tick before, and the same for energy.
C22_UsedFallsOnlyWithRisingReading ==
    [][~offered'.reset =>
          /\ offered'.sample.fuel_curr <= offered.sample.fuel_curr
                => stint_data'.fuel >= stint_data.fuel
          /\ offered'.sample.energy_curr <= offered.sample.energy_curr
                => stint_data'.energy >= stint_data.energy]_vars

\* in the middle of a stint the whole tank and the whole battery are used
C22_Witness ==
    /\ spc = "tick" /\ ~offered.reset /\ gen.stint_running
    /\ stint_data.fuel = MaxFuel /\ stint_data.energy = 1
    /\ offered.sample.fuel_curr = 0 /\ offered.sample.energy_curr = 0

(* ------------------------- consistency and delta ----------------------- *)

\* the most laps counted in one stint
MaxCounted == 3

\* a tick with the lap start time as it was, later or earlier, the car
\* anywhere, on track with its tyres cold or warm;
\* the ticks are those of the last second of the run, so that the session
\* time is never behind the start of a lap
LapTick ==
    \E sit \in (Places \X {80}) \cup {<<"track", 0>>},
       lap_stime \in 0..MaxSession :
        LET e == MaxSession
            s == [PlaceSample(sit[1]) EXCEPT !.lap_stime = lap_stime,
                                            !.carcass_temperature = sit[2]]
        IN  /\ gen.stint_laps < MaxCounted
            /\ offered' = Observed(e, s)
            /\ StintTimerEvent(e, s)

LapsInit == StintInit(StintSettings(1))

SpecLaps == LapsInit /\ [][LapTick]_vars

\* C23: after every tick the consistency shown is above 0 and at most 100
\* and the delta shown is not negative.
C23_ConsistencyInRange ==
    spc = "tick" =>
        /\ stint_data.consistency.den > 0 /\ stint_data.delta.den > 0
        /\ stint_data.consistency.num > 0
        /\ stint_data.consistency.num <= 100 * stint_data.consistency.den
        /\ stint_data.delta.num >= 0

\* three laps counted, not all of the same length
C23_Witness ==
    /\ spc = "tick" /\ gen.stint_laps >= 3
    /\ stint_data.consistency.num < 100 * stint_data.consistency.den
    /\ stint_data.delta.num > 0

\* C24: with fewer than two laps counted in the stint the consistency shown
\* is 100 (1.0) and the delta 0; with count >= 2 laps counted they are
\* fastest / average and average - fastest, the average being
\* (total - fastest) / (count - 1); and on a tick that counts no lap and
\* resets nothing both stay as they were.
C24_ConsistencyOfCountedLaps ==
    /\ [](spc = "tick" =>
            LET count == gen.stint_laps
                rest == gen.stint_time - gen.stint_fastest
                c == stint_data.consistency
                d == stint_data.delta
            IN  /\ count < 2 => c.num = 100 * c.den /\ d.num = 0
                /\ (count >= 2 /\ rest > 0) =>
                      /\ c.num * rest = 100 * gen.stint_fastest * (count - 1) * c.den
                      /\ d.num * (count - 1)
                            = (rest - gen.stint_fastest * (count - 1)) * d.den)
    /\ [][(gen'.stint_laps = gen.stint_laps /\ ~offered'.reset) =>
              /\ stint_data'.consistency = stint_data.consistency
              /\ stint_data'.delta = stint_data.delta]_vars

\* two laps of different length counted, and the car in the pit lane since
C24_Witness ==
    /\ spc = "tick" /\ gen.stint_laps = 2 /\ stint_data.delta.num > 0
    /\ offered.sample.in_pits /\ ~offered.sample.in_garage /\ ~offered.reset
    /\ gen.pos = "yield False"

(* ---------------------------- closing a stint -------------------------- *)

\* what the car can be doing at a tick of these runs: the situations of the
\* history runs, and worn tyres on track, to be changed in the pits
CloseSituations ==
    Situations \cup {[TrackSample EXCEPT !.wear_avg = 1],
                     [TrackSample EXCEPT !.in_pits = TRUE, !.speed = 0,
                                         !.energy_curr = 1]}

CloseInit == StintInit(StintSettings(1))

\* the ticks of these runs are a second apart, or five after a pause
CloseTick ==
    \E e \in NextSession \ {session_etime}, s \in CloseSituations :
        /\ offered' = Observed(e, s)
        /\ StintTimerEvent(e, s)

SpecClose == CloseInit /\ [][CloseTick]_vars

\* C28: a call returns True exactly when it appended one record to the
\* history, and a call that returns False leaves the history as it was.
C28_DidCloseIsExact ==
    /\ [](spc = "tick" => (did_close <=> offered.appends = 1))
    /\ [][~did_close' => history_data' = history_data]_vars

\* a call has returned True and the history holds the stint it closed
C28_Witness ==
    /\ spc = "tick" /\ did_close /\ offered.appends = 1
    /\ history_data[1] # EmptyData /\ history_data[1] = stint_data

\* C25 as claimed: on every tick with the car in the garage, the session
\* before the race, or the elapsed time more than 4 s from that of the tick
\* before, the call leaves the start levels re-based on the tick, the
\* consistency 1.0, the delta 0.0 and no stint running, and it has pushed a
\* record iff a stint was running that had lasted the minimum stint time.
C25_IgnoredTickResets ==
    [][LET s == offered'.sample
           running == gen.stint_running /\ gen.pos = "yield False"
       IN  (s.in_garage \/ s.pre_race
              \/ Abs(s.elapsed_time - session_etime) > 4) =>
             /\ gen'.start_laps = s.lap_number
             /\ gen'.start_time = s.elapsed_time
             /\ gen'.start_fuel = s.fuel_curr
             /\ gen'.start_energy = s.energy_curr
             /\ gen'.start_wear = s.wear_avg
             /\ gen'.consistency = Ratio(1, 1) /\ gen'.delta = Ratio(0, 1)
             /\ ~gen'.stint_running
             /\ offered'.appends = 1 <=>
                   (running /\ stint_data.time >= stint_cfg.minimum_stint_seconds)]_vars

\* C26 as claimed: on a tick with the car in the pits and a stint running,
\* the stint is closed iff the wear is below, or the fuel or the energy
\* above, the last reading on track, or the car has not been seen above
\* 1 m/s for more than the minimum pit stop time.
C26_PitStopCloses ==
    [][LET s == offered'.sample
       IN  (/\ s.in_pits /\ ~s.in_garage /\ ~s.pre_race
            /\ Abs(s.elapsed_time - session_etime) <= 4
            /\ gen.stint_running /\ gen.pos = "yield False") =>
             (offered'.appends = 1 <=>
                \/ gen.last_wear_avg > s.wear_avg
                \/ gen.last_fuel_curr < s.fuel_curr
                \/ gen.last_energy_curr < s.energy_curr
                \/ s.elapsed_time - offered'.moved
                      > stint_cfg.minimum_pitstop_seconds)]_vars

\* C27 as claimed: after every call the stint data are those of the
\* telemetry of that tick.
C27_OneSamplePerTick ==
    spc = "tick" => stint_data = StintData(gen, offered.sample, stint_data)

(* ------------------------------ the totals ---------------------------- *)

\* the largest elapsed session time of a run in which the session time goes
\* back as well as on
MaxRestart == 2

TotalsInit == StintInit(StintSettings(1))

\* a tick on track or in the garage with the lap number 0 or 1, the tyres
\* new or worn, the tank and the battery full (fuel 2, energy 1) or used
\* (fuel 1, energy 0), whatever they were on the tick before, and the
\* session time a second on or a second back
TotalsTick ==
    \E place \in {"track", "garage"}, lap \in {0, 1}, wear \in {0, 1},
       used \in {0, 1},
       e \in {t \in {session_etime - 1, session_etime + 1} :
                0 <= t /\ t <= MaxRestart} :
        LET s == [PlaceSample(place) EXCEPT !.lap_number = lap,
                                           !.wear_avg = wear,
                                           !.fuel_curr = 2 - used,
                                           !.energy_curr = 1 - used]
        IN  /\ offered' = Observed(e, s)
            /\ StintTimerEvent(e, s)

SpecTotals == TotalsInit /\ [][TotalsTick]_vars

\* C30: the laps, time, fuel, energy and wear of the stint data are never
\* negative.
C30_TotalsNotNegative ==
    /\ stint_data.laps >= 0 /\ stint_data.time >= 0
    /\ stint_data.fuel >= 0 /\ stint_data.energy >= 0
    /\ stint_data.wear >= 0

\* a tick in mid-stint on which the lap number, the session time and the
\* wear are all behind their values at the start of the stint
C30_Witness ==
    /\ spc = "tick" /\ gen.pos = "yield False" /\ ~offered.reset
    /\ offered.sample.lap_number < gen.start_laps
    /\ offered.sample.elapsed_time < gen.start_time
    /\ offered.sample.wear_avg < gen.start_wear
    /\ stint_data.laps = 0 /\ stint_data.time = 0 /\ stint_data.wear = 0

(* ---------------------------- resetting the timers --------------------- *)

\* the timers as their constructors leave them
NewPitTimer == [timer_start |-> 0, last_in_pits |-> FALSE, last_pit_time |-> 0]

NewGreenFlagTimer == [last_lap_stime |-> -1]

NewBlueFlagTimer == [timer_start |-> 0]

NewTrafficTimer == [timer_start |-> 0, last_in_pits |-> FALSE]

\* a reset that leaves _last_in_pits as it is
PitTimerReset_KeepsInPits(t) ==
    [t EXCEPT !.timer_start = 0, !.last_pit_time = 0]

\* the reset methods of the four timers
PitTimerReset(t) ==
    [t EXCEPT !.timer_start = 0, !.last_in_pits = FALSE, !.last_pit_time = 0]

GreenFlagTimerReset(t) == [t EXCEPT !.last_lap_stime = -1]

BlueFlagTimerReset(t) == [t EXCEPT !.timer_start = 0]

TrafficTimerReset(t) == [t EXCEPT !.timer_start = 0, !.last_in_pits = FALSE]

\* post_update: the widget resets its timers; nothing is displayed until
\* the next timerEvent
PostUpdate ==
    /\ pit_timer' = PitTimerReset(pit_timer)
    /\ blue_timer' = BlueFlagTimerReset(blue_timer)
    /\ traffic_timer' = TrafficTimerReset(traffic_timer)
    /\ green_timer' = GreenFlagTimerReset(green_timer)
    /\ shadow' = [on |-> TRUE,
                  t |-> [pit_timer |-> NewPitTimer,
                         pitting_state |-> pitting_state,
                         blue_timer |-> NewBlueFlagTimer,
                         blue_state |-> blue_state,
                         green_timer |-> NewGreenFlagTimer,
                         green_state |-> green_state,
                         traffic_timer |-> NewTrafficTimer,
                         traffic |-> traffic]]
    /\ fpc' = "reset"
    /\ UNCHANGED <<wcfg, lap_etime, tele, pitting_state, blue_state,
                   green_state, traffic, flag_hist>>
    /\ UNCHANGED <<wrapVars, rosterVars, outVars, pc, sessionVars, stintVars>>

\* what can be signalled at a tick of these runs: the car in the pit lane
\* or not, the blue flag, the start lights, a car two seconds behind
ResetSamples ==
    {[QuietSample EXCEPT !.in_pits = p, !.blue_flag = p,
                         !.start_lights = l, !.nearest_traffic = 2] :
        p \in BOOLEAN, l \in {0, 1}}

ResetInit == FlagInit(FlagSettings)

ResetTick == \E e \in NextElapsed, s \in ResetSamples : TimerEvent(e, s)

ResetNext == ResetTick \/ PostUpdate

SpecReset == ResetInit /\ [][ResetNext]_vars

\* C29: from a post_update on, the four timers are in the state, and return
\* the values, of timers constructed at the post_update with the same
\* settings and given the same ticks.
C29_ResetIsConstruction ==
    shadow.on =>
        /\ pit_timer = shadow.t.pit_timer /\ blue_timer = shadow.t.blue_timer
        /\ green_timer = shadow.t.green_timer
        /\ traffic_timer = shadow.t.traffic_timer
        /\ pitting_state = shadow.t.pitting_state
        /\ blue_state = shadow.t.blue_state
        /\ green_state = shadow.t.green_state
        /\ traffic = shadow.t.traffic

\* a post_update came with the car in the pits and the blue flag and the
\* lights shown, and the timers have run again since
C29_Witness ==
    /\ shadow.on /\ Ticked
    /\ flag_hist.pit_prev /\ flag_hist.blue_since # None
    /\ flag_hist.blue_since # lap_etime
    /\ pitting_state # MAX_SECONDS /\ pitting_state > 0
    /\ pitting_state # lap_etime - flag_hist.pit_entered
    /\ blue_state # MAX_SECONDS /\ blue_state # lap_etime - flag_hist.blue_since

(* ------------------ the pit timer and the garage ---------------------- *)

PitGarageInit == FlagInit(FlagSettings)

\* the car is on track, in the pit lane, or in its garage (in the pits or not)
PitGarageTick ==
    \E e \in NextElapsed, p \in BOOLEAN, g \in BOOLEAN :
        TimerEvent(e, [QuietSample EXCEPT !.in_pits = p, !.in_garage = g])

SpecPitGarage == PitGarageInit /\ [][PitGarageTick]_vars

\* C32: a tick with the car in the pits and in the garage reports
\* MAX_SECONDS as the pit state and leaves the pit timer's start time, last
\* in-pits flag and last pit duration as they were.
C32_GarageSkipsPitTimer ==
    [][(tele'.in_pits /\ tele'.in_garage)
        => (pitting_state' = MAX_SECONDS /\ pit_timer' = pit_timer)]_vars

\* the car has been timed in the pit lane and now stands in its garage: the
\* timer still holds the running pit stop
C32_Witness ==
    /\ Ticked /\ tele.in_pits /\ tele.in_garage
    /\ pit_timer.timer_start # 0 /\ pit_timer.last_in_pits
    /\ pit_timer.last_pit_time > 0
    /\ lap_etime - pit_timer.timer_start > pit_timer.last_pit_time
    /\ pitting_state = MAX_SECONDS

(* ------------------ the traffic timer's grace window ------------------ *)

\* C33 as claimed: from a pit exit at any elapsed time, with the car out of
\* the pits, a gap below the maximum is reported on every tick of the grace
\* window, and after the window, the car not being below the low-speed
\* threshold, MAX_SECONDS is reported.
C33_PitoutWindow ==
    (Ticked /\ flag_hist.pitout_at # None /\ ~tele.in_pits) =>
        /\ (InPitoutWindow
                /\ tele.nearest_traffic < wcfg.traffic_maximum_time_gap)
            => traffic = tele.nearest_traffic
        /\ (~InPitoutWindow /\ ~BelowLowSpeed) => traffic = MAX_SECONDS

(* ------------------- the start lights and the green flag -------------- *)

\* C34: while the start lights have never been on the timer returns -1; on
\* a tick with the lights on it returns their countdown value; after the
\* last tick with the lights on it returns 0 up to and including
\* green_flag_duration later, and -1 after that.
C34_LightsThenGreen ==
    Ticked =>
        green_state =
            IF tele.start_lights > 0 THEN tele.start_lights
            ELSE IF flag_hist.lights_last = None THEN -1
            ELSE IF lap_etime - flag_hist.lights_last <= wcfg.green_flag_duration
            THEN 0
            ELSE -1

\* the lights went out green_flag_duration ago and the green flag is still
\* shown
C34_Witness ==
    /\ Ticked /\ tele.start_lights = 0
    /\ flag_hist.lights_last # None
    /\ lap_etime - flag_hist.lights_last = wcfg.green_flag_duration
    /\ green_state = 0

(* ------------------- the laps counted for consistency ------------------ *)

\* the lap in progress after a tick with telemetry s. The tick that shows a
\* new lap start time ends the lap before (its in_pits is or-ed into that
\* lap's flag, as "pitting |= in_pits" comes before the comparison) and
\* begins the next; a tick sets reset_stint when the generator reads it and
\* leaves the branches with the flag set.
LapSeen(s) ==
    LET l == offered.lap
        p == offered.sample
        changed == l.ticks > 0 /\ s.lap_stime # p.lap_stime
        trigger == /\ gen.pos = "yield False"
                   /\ StintBranch(gen, s, stint_data, stint_cfg).gen.reset_stint
        pits == l.pits \/ s.in_pits
        reset == l.reset \/ trigger
    IN  IF changed
        THEN [pits |-> FALSE, reset |-> trigger,
              bad |-> s.lap_stime - p.lap_stime <= 0, ticks |-> 1,
              ended |-> TRUE, ended_pits |-> pits, ended_reset |-> reset,
              ended_bad |-> l.bad,
              ended_time |-> s.lap_stime - p.lap_stime]
        ELSE [NoLap EXCEPT !.pits = pits, !.reset = reset, !.bad = l.bad,
                           !.ticks = 2]

\* the car on track with warm or cold tyres, in the pit lane, or on track
\* before the race has started
CountSamples ==
    {TrackSample, [TrackSample EXCEPT !.carcass_temperature = 0],
     [TrackSample EXCEPT !.in_pits = TRUE],
     [TrackSample EXCEPT !.pre_race = TRUE]}

\* every stint is long enough to be recorded
CountInit == StintInit([StintSettings(1) EXCEPT !.minimum_stint_seconds = 0])

\* a tick of the last second of the run, with the lap start time as it was
\* or, the lap in progress having lasted two ticks, later or earlier
CountTick ==
    \E s0 \in CountSamples, lap_stime \in 0..MaxCounted :
        LET e == MaxSession
            s == [s0 EXCEPT !.lap_stime = lap_stime, !.elapsed_time = e]
        IN  /\ gen.stint_laps < MaxCounted
            /\ \/ lap_stime = offered.sample.lap_stime
               \/ offered.lap.ticks # 1
            /\ offered' = [Observed(e, s) EXCEPT !.lap = LapSeen(s)]
            /\ StintTimerEvent(e, s)

SpecCount == CountInit /\ [][CountTick]_vars

\* C35 as claimed: a tick counts a lap exactly when it shows a new lap start
\* time, the car was not seen in the pits during the lap ended, the lap did
\* not begin with the lap start time moving back, its time is above 0 and
\* the tyres are above the minimum temperature.
C35_CountedLaps ==
    [][(gen'.stint_laps = gen.stint_laps + 1)
        <=> (/\ offered'.lap.ended
             /\ ~offered'.lap.ended_pits /\ ~offered'.lap.ended_bad
             /\ offered'.lap.ended_time > 0
             /\ offered'.sample.carcass_temperature
                    > stint_cfg.minimum_tyre_temperature)]_vars

\* C36: a tick that ends a lap during which a tick has reset the stint adds
\* nothing to the laps counted, their total time or the fastest lap.
C36_ResetLapNotCounted ==
    [][(offered'.lap.ended /\ offered'.lap.ended_reset)
        => (/\ gen'.stint_laps <= gen.stint_laps
            /\ gen'.stint_time <= gen.stint_time
            /\ gen'.stint_fastest >= gen.stint_fastest)]_vars

\* a lap during which the stint was reset has ended with the car never seen
\* in the pits, its time above 0 and the tyres warm, and no lap is counted
C36_Witness ==
    /\ spc = "tick" /\ offered.lap.ended /\ offered.lap.ended_reset
    /\ ~offered.lap.ended_pits /\ ~offered.lap.ended_bad
    /\ offered.lap.ended_time > 0
    /\ offered.sample.carcass_temperature > stint_cfg.minimum_tyre_temperature
    /\ gen.pos = "yield False" /\ gen.stint_laps = 0

(* ---------------------- the stints that are recorded ------------------- *)

\* where a sample shows the car, in the order of the branches
Kind(s) ==
    IF s.in_garage THEN "garage"
    ELSE IF s.pre_race THEN "pre-race"
    ELSE IF s.in_pits THEN "pit lane"
    ELSE "track"

\* the stay after a tick at elapsed time e with telemetry s0: a call that
\* runs the reset block forgets the ticks on track; a tick on track is one
\* outside the garage, the pre-race period and the pits, not more than 4 s
\* after the tick before
StaySeen(e, s0) ==
    LET o == Observed(e, s0)
        st == offered.stay
        on_track == /\ Kind(s0) = "track"
                    /\ Abs(e - offered.sample.elapsed_time) <= 4
        same == Kind(s0) = st.kind
    IN  [ran |-> IF o.reset THEN FALSE ELSE st.ran \/ on_track,
         kind |-> Kind(s0),
         ticks |-> IF same THEN (IF st.ticks < 3 THEN st.ticks + 1 ELSE 3)
                   ELSE 1,
         pushes |-> IF same THEN st.pushes + o.appends ELSE o.appends]

\* stints of any length are recorded, or those of 3 s and more
StayInit ==
    \E min \in {0, 3} :
        StintInit([StintSettings(1) EXCEPT !.minimum_stint_seconds = min])

\* the ticks of these runs are a second apart, or five after a pause; the
\* first may come at elapsed time 0
StayTimes ==
    IF spc = "in" THEN NextSession ELSE NextSession \ {session_etime}

StayTick ==
    \E e \in StayTimes, s \in CloseSituations :
        /\ offered' = [Observed(e, s) EXCEPT !.stay = StaySeen(e, s)]
        /\ StintTimerEvent(e, s)

SpecStay == StayInit /\ [][StayTick]_vars

\* C37: a tick pushes a record only if a tick since the last reset showed
\* the car on track, and the ticks of one stay in the garage, in the
\* pre-race period or in the pit lane push at most one record.
C37_OnlyDrivenStints ==
    /\ [](offered.stay.pushes <= 1)
    /\ [][offered'.appends = 1 => offered.stay.ran]_vars

\* the third tick and more of a stay in the garage that has pushed a record
C37_Witness ==
    /\ spc = "tick" /\ offered.stay.kind = "garage"
    /\ offered.stay.ticks = 3 /\ offered.stay.pushes = 1
    /\ gen.pos = "yield False"

\* C38: the record a tick pushes is the stint data as the tick before left
\* them, which the pushing tick does not change.
C38_RecordOfPreviousTick ==
    [][offered'.appends = 1
        => (history_data'[1] = stint_data /\ stint_data' = stint_data)]_vars

\* a stint has just been closed by a tick more than 4 s after the tick
\* before: the record holds the time up to that tick, not the pause
C38_Witness ==
    /\ gen.pos = "yield True" /\ offered.appends = 1
    /\ ~offered.sample.in_garage /\ ~offered.sample.pre_race
    /\ offered.sample.elapsed_time - gen.last_time > 4
    /\ history_data[1].time = gen.last_time - gen.start_time
    /\ history_data[1].time > 0

(* ----------------------- the spectate hotkeys ------------------------- *)

\* api.read.vehicle.total_vehicles()
total_vehicles == NumVehicles

\* the first index in range(total_vehicles) whose vehicle holds the place,
\* None when the loop ends without one
IndexAtPlace(place) ==
    LET found == {i \in Vehicles : veh[i].place = place}
    IN  IF found = {} THEN None
        ELSE CHOOSE i \in found : \A j \in found : i <= j

\* the hotkeys pressed and the player_index before each, the last two kept
Pressed(key) ==
    IF Len(spectated) < 2
    THEN Append(spectated, [key |-> key, index |-> player_index])
    ELSE <<spectated[2], [key |-> key, index |-> player_index]>>

\* what a spectate hotkey does to the session: api.read.vehicle.place() is
\* the place of the vehicle at player_index, and the vehicle found at the
\* place looked for becomes cfg.api["player_index"]
Spectate(key, place) ==
    /\ player_index' =
            IF enable_player_index_override /\ IndexAtPlace(place) # None
            THEN IndexAtPlace(place)
            ELSE player_index
    /\ spectated' = Pressed(key)
    /\ pc' = key
    /\ UNCHANGED <<widgetVars, wrapVars, rosterVars, outVars, veh, now,
                   yellow_timestamps, selected_index, populated, obsVars,
                   enable_player_index_override>>

\* hotkey_spectate_next_driver()
HotkeySpectateNextDriver ==
    \E place \in {veh[player_index].place + 1} :
        Spectate("spectate_next_driver",
                 IF place > total_vehicles THEN 0 ELSE place)

\* hotkey_spectate_previous_driver()
HotkeySpectatePreviousDriver ==
    \E place \in {veh[player_index].place - 1} :
        Spectate("spectate_previous_driver",
                 IF place < 1 THEN total_vehicles ELSE place)

\* the grids with the places 1..N each held by one vehicle
SpectateGrids ==
    {[i \in Vehicles |->
        [place |-> f[i], cls |-> ClassByIndex(i), in_pits |-> FALSE,
         in_garage |-> FALSE, speed |-> RacingSpeed, blue |-> FALSE]] :
        f \in {g \in [Vehicles -> 1..NumVehicles] :
                    \A i, j \in Vehicles : g[i] = g[j] => i = j}}

\* any vehicle is spectated, with the override enabled or not
SpectateInit ==
    /\ WrapIdle /\ WidgetsIdle
    /\ veh \in SpectateGrids
    /\ time_into = [i \in Vehicles |-> 0]
    /\ laptime_est = MaxLap
    /\ now = 0
    /\ yellow_timestamps = [i \in Vehicles |-> None]
    /\ player_index \in Vehicles
    /\ enable_player_index_override \in BOOLEAN
    /\ spectated = << >>
    /\ selected_index = None
    /\ populated = FALSE
    /\ last_slow = [i \in Vehicles |-> None]
    /\ recovered = [i \in Vehicles |-> None]
    /\ forgotten = [i \in Vehicles |-> None]
    /\ driver_list = << >>
    /\ class_positions = << >> /\ battles = {} /\ close = {} /\ lapping = {}
    /\ pc = "in"

SpectateNext == HotkeySpectateNextDriver \/ HotkeySpectatePreviousDriver

SpecSpectate == SpectateInit /\ [][SpectateNext]_vars

\* C39 as claimed: with the override enabled, next moves to the vehicle one
\* place down and from place N to place 1, previous to the vehicle one
\* place up and from place 1 to place N, and next followed by previous
\* returns to the vehicle spectated before; with the override disabled
\* neither changes the vehicle spectated.
C39_NextThenPrevious ==
    LET n == Len(spectated)
        last == spectated[n]
        from == veh[last.index].place
    IN  n > 0 =>
            IF enable_player_index_override
            THEN /\ last.key = "spectate_next_driver"
                    => veh[player_index].place
                         = IF from = NumVehicles THEN 1 ELSE from + 1
                 /\ last.key = "spectate_previous_driver"
                    => veh[player_index].place
                         = IF from = 1 THEN NumVehicles ELSE from - 1
                 /\ (/\ n = 2
                     /\ spectated[1].key = "spectate_next_driver"
                     /\ last.key = "spectate_previous_driver")
                    => player_index = spectated[1].index
            ELSE player_index = last.index

====
